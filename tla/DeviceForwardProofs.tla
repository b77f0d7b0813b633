------------------------- MODULE DeviceForwardProofs -------------------------
(***************************************************************************)
(* Proofs about DeviceForward, for every memory and every caps, any number  *)
(* of layers, devices and faults, and every family of models:               *)
(*                                                                          *)
(*   MatricesStay        the matrices a fused operation holds are not       *)
(*                       evicted                                            *)
(*   GraphsAreLive       no captured graph embeds a matrix that was freed   *)
(*   HiddenIsThere       at most one device holds the hidden state, and     *)
(*                       while nothing fails it is where the model takes it *)
(*                       to be                                              *)
(*   CapsAreRespected    a device holds no matrix twice, no more than its   *)
(*                       memory and no more than its cap, but for what is   *)
(*                       protected                                          *)
(*   CachesAreAccounted  and with memory for what is protected and one      *)
(*                       matrix more a token fails only after something     *)
(*                       went wrong                                         *)
(*                                                                          *)
(* The first two are one invariant of the weight cache.  It is inductive    *)
(* because what a call holds is among its most recent matrices, and no      *)
(* eviction goes so far; the bound counts the matrices still to come.  The  *)
(* third needs to know which calls a token makes in which of its modes.     *)
(* The fourth is an invariant of the list of matrices: what eviction and    *)
(* upload leave is part of what there was.  The last is about a token that  *)
(* nothing goes wrong for: every call finds the hidden state, the attention *)
(* and the snapshot that it reads, and the two that are refused all the     *)
(* same (the gather, and the fused attention of a model that is not         *)
(* quantised) are those the model goes on after.                            *)
(***************************************************************************)
EXTENDS DeviceForward, FiniteSetTheorems, NaturalsInduction, WellFoundedInduction, TLAPS

-----------------------------------------------------------------------------
(* The inductive invariant: the weight caches.                               *)

\* lru is a sequence, and a device has its fields.
List(lru) == lru \in Seq(OnDevice(lru))
Fields == {"lru", "graphs", "caps", "resid", "active", "moe", "vec", "lastVec", "skipAttn", "kv"}
Device(g) == DOMAIN g = Fields /\ g = [f \in Fields |-> g[f]] /\ List(g.lru)

\* Graphs embed matrices that are on the device.
Live(g) == \A graph \in g.graphs : graph \subseteq OnDevice(g.lru)

\* The matrices of held are among the first k of the list.
Among(lru, held, k) == \A m \in held : \E i \in DOMAIN lru : i <= k /\ lru[i] = m

\* What a call holds, and what it will still upload, is protected together.
Protected ==
  op # NoOp /\ op.rc = "open" =>
    /\ List(op.todo) /\ Len(op.todo) <= weightProtect
    /\ Among(gpu[op.dev].lru, op.held, weightProtect - Len(op.todo))

\* The devices and what is known of the split.
Plan == {"bounds", "cur", "broken"}
Split(m) ==
  /\ DOMAIN m = Plan /\ m = [f \in Plan |-> m[f]]
  /\ DOMAIN m.bounds = 0..cfg.devices /\ m.cur \in Devices
Ops == {"kind", "layer", "local", "pos", "n", "dev", "buf", "content", "attn", "quant", "want",
        "todo", "held", "read", "rc"}
Machine ==
  /\ cfg \in Configs /\ Split(multi)
  /\ DOMAIN gpu = Devices /\ gpu = [d \in Devices |-> gpu[d]]
  /\ \A d \in Devices : Device(gpu[d])
  /\ op # NoOp => DOMAIN op = Ops /\ op = [f \in Ops |-> op[f]] /\ op.dev = multi.cur /\ op.quant = cfg.quant

CacheInv == Machine /\ Protected /\ \A d \in Devices : Live(gpu[d])

-----------------------------------------------------------------------------
(* The inductive invariant: the mode of a token.                             *)

HostSteps ==
  {"hqkv", "q", "k", "v", "append", "rebuild", "scores", "hattnffn", "wo", "ffn", "gate", "up",
   "act", "down", "router", "expert", "expert2", "hupload", "hlogits", "release"}
Steps == ResidentSteps \cup HostSteps \cup {"idle", "failed", "cpu"}
Phi2Steps == {"q", "k", "v", "append", "scores", "wo", "up", "act", "down"}

\* The steps that work on a layer.
OfLayer == Steps \ {"idle", "failed", "rlogits", "sync", "hupload", "hlogits", "release"}

Run == [step : Steps, layer : 0..NumLayers, first : Int, last : Int, n : Nat,
        resident : BOOLEAN, sub : Int]

\* With the hidden state resident a token makes the fused calls, those of
\* phi2, or writes the KV again; a batch never has it.
GoodRun(r) ==
  /\ r \in Run
  /\ r.step \in OfLayer => r.layer < NumLayers
  /\ r.resident /\ r.step \notin {"idle", "failed"} =>
       /\ r.n = 1
       /\ \/ r.step \in (ResidentSteps \ {"recover"}) \cup {"rebuild"}
          \/ cfg.family = "phi2" /\ r.step \in Phi2Steps
  /\ r.step \in {"gather", "upload"} => r.n = 1
  /\ r.step = "rlogits" => r.resident
  /\ r.step \in {"rln", "radd"} => cfg.family = "phi2"
Modes == GoodRun(run)

\* What the backend launches.
Kinds ==
  {"matmul", "ffn", "gemm", "qkv", "attnffn", "act", "append", "scores", "attnout", "router", "expert",
   "upload", "download", "logits", "lnresid", "residadd"}

\* The operation is that of the step.
OfStep ==
  op # NoOp =>
    /\ Calling /\ op.kind \in Kinds \cup {"gather"} /\ (op.rc = "open" => op.kind # "gather")
    /\ op.kind = "upload" <=> run.step \in {"upload", "hupload"}
    /\ op.kind = "upload" => op.todo = <<>>
    /\ op.kind = "download" => run.step \in {"recover", "sync", "release"}
    /\ op.kind = "attnffn" /\ op.buf # None => run.step = "hattnffn"
    /\ op.kind = "attnffn" /\ op.buf = None /\ op.rc = "open" => op.quant
    /\ op.kind = "attnout" => op.buf = None

\* At most the device the next operation goes to has the hidden state; while
\* nothing failed it has it where the model counts on it, and from then on
\* until an operation takes it away.
Faultless == faults = cfg.faults
OnlyAt(g, cur) == \A d \in Devices : g[d].active => d = cur
ActiveHere == OnlyAt(gpu, multi.cur)
Counted ==
  Faultless /\ (run.resident \/ run.step = "hlogits")
    /\ (op = NoOp \/ op.kind \notin {"upload", "download"}) => gpu[multi.cur].active
Uploads ==
  Faultless /\ op # NoOp /\ op.kind = "upload" =>
    op.rc \in {"open", "ok"} /\ (op.rc = "ok" => gpu[multi.cur].active)

HiddenInv ==
  faults \in Int /\ faults <= cfg.faults /\ Modes /\ OfStep /\ ActiveHere /\ Counted /\ Uploads

\* The inductive invariant.
IInv == CacheInv /\ HiddenInv

-----------------------------------------------------------------------------
(* Sequences: what the list of matrices keeps.                               *)

\* A sequence of anything is a list.
LEMMA SequencesAreLists ==
  ASSUME NEW S, NEW s \in Seq(S)
  PROVE  List(s)
BY DEF List, OnDevice

\* Every bounded, non-empty set of naturals has a greatest element.
LEMMA Greatest ==
  ASSUME NEW n \in Nat, NEW T \in SUBSET (0..n), T # {}
  PROVE  \E m \in T : \A y \in T : y <= m
<1> DEFINE U == {n - y : y \in T}
<1>1. U \in SUBSET Nat /\ U # {}
  <2>1. ASSUME NEW y \in T PROVE n - y \in Nat
    OBVIOUS
  <2> QED BY <2>1
<1>2. PICK x \in U : \A y \in U : ~ (<<y, x>> \in OpToRel(<, Nat))
  BY <1>1, NatLessThanWellFounded, WFMin, Zenon
<1>3. PICK m \in T : x = n - m
  BY <1>2
<1>4. ASSUME NEW y \in T PROVE y <= m
  <2>1. n - y \in U /\ n - y \in Nat
    BY <1>1
  <2>2. ~ (<<n - y, x>> \in OpToRel(<, Nat))
    BY <1>2, <2>1
  <2>3. ~ (n - y < x)
    BY <2>1, <2>2, <1>1, <1>2, Zenon DEF OpToRel
  <2> QED BY <1>3, <2>3
<1> QED BY <1>4

\* Removing a matrix removes at most one, and moves none back.
LEMMA WithoutKeeps ==
  ASSUME NEW lru, List(lru), NEW m
  PROVE  /\ Without(lru, m) \in Seq(OnDevice(lru))
         /\ \A i \in DOMAIN lru : lru[i] # m =>
              \E j \in DOMAIN Without(lru, m) : j <= i /\ Without(lru, m)[j] = lru[i]
<1> DEFINE S == OnDevice(lru)
<1>0. lru \in Seq(S) /\ DOMAIN lru = 1..Len(lru) /\ Len(lru) \in Nat
  BY DEF List
<1>1. CASE m \notin S
  BY <1>0, <1>1 DEF Without
<1>2. CASE m \in S
  <2> DEFINE at == CHOOSE i \in DOMAIN lru : lru[i] = m
             W1 == SubSeq(lru, 1, at - 1)
             W2 == SubSeq(lru, at + 1, Len(lru))
  <2>1. at \in DOMAIN lru /\ lru[at] = m
    BY <1>2 DEF OnDevice
  <2>2. Without(lru, m) = W1 \o W2
    BY <1>2 DEF Without
  <2> HIDE DEF at, S
  <2>3. /\ W1 \in Seq(S) /\ W2 \in Seq(S) /\ Len(W1) = at - 1 /\ Len(W2) = Len(lru) - at
        /\ \A i \in 1..(at - 1) : W1[i] = lru[i]
        /\ \A i \in 1..(Len(lru) - at) : W2[i] = lru[at + i]
    <3>1. lru \in Seq(S) /\ at \in 1..Len(lru) /\ Len(lru) \in Nat
      BY <1>0, <2>1 DEF S
    <3>2. W1 \in Seq(S) /\ Len(W1) = at - 1 /\ \A i \in 1..(at - 1) : W1[i] = lru[i]
      BY <3>1
    <3>3. W2 \in Seq(S) /\ Len(W2) = Len(lru) - at
      BY <3>1
    <3>4. ASSUME NEW i \in 1..(Len(lru) - at) PROVE W2[i] = lru[at + i]
      <4>1. W2[i] = lru[(at + 1) + i - 1]
        BY <3>1
      <4> QED BY <3>1, <4>1
    <3> QED BY <3>2, <3>3, <3>4
  <2> HIDE DEF W1, W2
  <2>4. ASSUME NEW i \in DOMAIN lru, lru[i] # m
        PROVE  \E j \in DOMAIN (W1 \o W2) : j <= i /\ (W1 \o W2)[j] = lru[i]
    <3>0. i \in Int /\ 1 <= i /\ i <= Len(lru) /\ at \in Int /\ 1 <= at /\ at <= Len(lru)
      BY <1>0, <2>1
    <3>1. CASE i < at
      <4>1. i \in DOMAIN (W1 \o W2) /\ (W1 \o W2)[i] = lru[i] /\ i <= i
        BY <1>0, <2>3, <3>0, <3>1
      <4> QED BY <4>1
    <3>2. CASE i > at
      <4>1. i - at \in 1..(Len(lru) - at) /\ at + (i - at) = i
        BY <1>0, <3>0, <3>2
      <4>2. W2[i - at] = lru[i]
        BY <2>3, <4>1
      <4>3. i - 1 \in DOMAIN (W1 \o W2) /\ (W1 \o W2)[i - 1] = W2[i - at]
        BY <1>0, <2>3, <3>0, <3>2
      <4>4. i - 1 <= i
        BY <3>0
      <4> QED BY <4>2, <4>3, <4>4
    <3> QED BY <2>1, <2>4, <3>0, <3>1, <3>2
  <2>5. W1 \o W2 \in Seq(S)
    BY <2>3
  <2> QED BY <2>2, <2>4, <2>5 DEF S
<1> QED BY <1>1, <1>2

\* A matrix that is used comes to the front, and the others move by one place.
LEMMA TouchedKeeps ==
  ASSUME NEW lru, List(lru), NEW m
  PROVE  /\ List(Touched(lru, m)) /\ OnDevice(lru) \cup {m} \subseteq OnDevice(Touched(lru, m))
         /\ \A held, k : k \in Nat /\ Among(lru, held, k) => Among(Touched(lru, m), held \cup {m}, k + 1)
<1> DEFINE S == OnDevice(lru) \cup {m}
           others == Without(lru, m)
<1>0. lru \in Seq(OnDevice(lru)) /\ DOMAIN lru = 1..Len(lru) /\ Len(lru) \in Nat
  BY DEF List
<1>1. others \in Seq(S) /\ \A i \in DOMAIN lru : lru[i] # m => \E j \in DOMAIN others : j <= i /\ others[j] = lru[i]
  BY WithoutKeeps
<1>2. Touched(lru, m) = <<m>> \o others
  BY DEF Touched
<1> HIDE DEF others
<1>3. <<m>> \o others \in Seq(S) /\ 1 \in DOMAIN (<<m>> \o others) /\ (<<m>> \o others)[1] = m
      /\ \A j \in DOMAIN others : j + 1 \in DOMAIN (<<m>> \o others) /\ (<<m>> \o others)[j + 1] = others[j]
  BY <1>1
<1>4. ASSUME NEW i \in DOMAIN lru
      PROVE  \E j \in DOMAIN Touched(lru, m) : j <= i + 1 /\ Touched(lru, m)[j] = lru[i]
  <2>1. CASE lru[i] = m
    <3>1. 1 <= i + 1
      BY <1>0
    <3> QED BY <1>2, <1>3, <2>1, <3>1
  <2>2. CASE lru[i] # m
    <3>1. PICK j \in DOMAIN others : j <= i /\ others[j] = lru[i]
      BY <1>1, <2>2
    <3>2. j + 1 <= i + 1
      BY <1>0, <1>1, <3>1
    <3> QED BY <1>2, <1>3, <3>1, <3>2
  <2> QED BY <2>1, <2>2
<1>5. List(Touched(lru, m))
  BY <1>2, <1>3, SequencesAreLists
<1>6. OnDevice(lru) \cup {m} \subseteq OnDevice(Touched(lru, m))
  BY <1>2, <1>3, <1>4 DEF OnDevice
<1>7. ASSUME NEW held, NEW k \in Nat, Among(lru, held, k)
      PROVE  Among(Touched(lru, m), held \cup {m}, k + 1)
  <2>1. ASSUME NEW h \in held
        PROVE  \E j \in DOMAIN Touched(lru, m) : j <= k + 1 /\ Touched(lru, m)[j] = h
    <3>1. PICK i \in DOMAIN lru : i <= k /\ lru[i] = h
      BY <1>7 DEF Among
    <3>2. PICK j \in DOMAIN Touched(lru, m) : j <= i + 1 /\ Touched(lru, m)[j] = h
      BY <1>4, <3>1
    <3>3. i \in Int /\ j \in Int
      BY <1>0, <1>2, <1>3
    <3> QED BY <3>1, <3>2, <3>3
  <2>2. \E j \in DOMAIN Touched(lru, m) : j <= k + 1 /\ Touched(lru, m)[j] = m
    BY <1>2, <1>3
  <2> QED BY <2>1, <2>2 DEF Among
<1> QED BY <1>5, <1>6, <1>7

\* Eviction leaves at least the weightProtect most recent matrices.
LEMMA EnforcedKeeps ==
  ASSUME NEW lru, List(lru), NEW caps
  PROVE  /\ List(Enforced(lru, caps))
         /\ \A held, k : k \in Nat /\ k <= weightProtect /\ Among(lru, held, k) =>
              Among(Enforced(lru, caps), held, k)
<1> DEFINE K == Kept(lru, caps)
           c == CHOOSE k \in K : \A j \in K : j <= k
<1>0. lru \in Seq(OnDevice(lru)) /\ DOMAIN lru = 1..Len(lru) /\ Len(lru) \in Nat
  BY DEF List
<1>1. K \in SUBSET (0..Len(lru)) /\ 0 \in K
      /\ \A k \in 0..Len(lru) : k <= weightProtect => k \in K
  BY <1>0, ProtectAssumption DEF Kept
<1>2. \E m \in K : \A y \in K : y <= m
  BY <1>0, <1>1, Greatest
<1>3. c \in K /\ \A j \in K : j <= c
  BY <1>2
<1>4. Enforced(lru, caps) = SubSeq(lru, 1, c)
  BY DEF Enforced
<1> HIDE DEF c, K
<1>5. SubSeq(lru, 1, c) \in Seq(OnDevice(lru)) /\ Len(SubSeq(lru, 1, c)) = c
      /\ \A i \in 1..c : SubSeq(lru, 1, c)[i] = lru[i]
  BY <1>0, <1>1, <1>3
<1>6. ASSUME NEW held, NEW k \in Nat, k <= weightProtect, Among(lru, held, k)
      PROVE  Among(SubSeq(lru, 1, c), held, k)
  <2>1. ASSUME NEW h \in held
        PROVE  \E i \in DOMAIN SubSeq(lru, 1, c) : i <= k /\ SubSeq(lru, 1, c)[i] = h
    <3>1. PICK i \in DOMAIN lru : i <= k /\ lru[i] = h
      BY <1>6 DEF Among
    <3>2. i \in 1..c
      BY <1>0, <1>1, <1>3, <1>6, <3>1, ProtectAssumption
    <3>3. i \in DOMAIN SubSeq(lru, 1, c)
      BY <1>5, <3>2
    <3> QED BY <1>5, <3>1, <3>2, <3>3
  <2> QED BY <2>1 DEF Among
<1> QED BY <1>4, <1>5, <1>6, SequencesAreLists

-----------------------------------------------------------------------------
(* The weight cache of a device.                                             *)

\* Where the hidden state is, and what the kernels left on the device.
SameHidden(g, h) ==
  h.active = g.active /\ h.resid = g.resid /\ h.moe = g.moe /\ h.skipAttn = g.skipAttn

\* With a matrix all captured graphs go, so none outlives its matrices.
LEMMA FreeKeeps ==
  ASSUME NEW g, Device(g), NEW lru, List(lru)
  PROVE  /\ Device(freeWeights(g, lru)) /\ freeWeights(g, lru).lru = lru
         /\ SameHidden(g, freeWeights(g, lru)) /\ freeWeights(g, lru).caps = g.caps
         /\ Live(g) => Live(freeWeights(g, lru))
BY DEF freeWeights, Device, Fields, Live, SameHidden

\* An upload that succeeds puts the matrix in front and spares what is held.
LEMMA EnsureKeeps ==
  ASSUME NEW g, Device(g), Live(g), NEW m, NEW vram, NEW e \in Ensure(g, m, vram)
  PROVE  /\ Device(e.gpu) /\ Live(e.gpu) /\ SameHidden(g, e.gpu) /\ e.gpu.caps = g.caps /\ e.rc \in {"ok", "failed"}
         /\ e.rc = "ok" => \A held, k : k \in Nat /\ k < weightProtect /\ Among(g.lru, held, k) =>
              Among(e.gpu.lru, held \cup {m}, k + 1)
<1> DEFINE touched == [g EXCEPT !.lru = Touched(@, m)]
           room == MadeRoom(g.lru, m, vram)
           evicted == freeWeights(g, room)
           tracked == freeWeights(evicted, Enforced(Touched(room, m), g.caps))
<1>0. List(g.lru)
  BY DEF Device
<1>1. CASE e = [gpu |-> touched, rc |-> "ok", cost |-> None]
  <2>1. List(Touched(g.lru, m)) /\ OnDevice(g.lru) \subseteq OnDevice(Touched(g.lru, m))
    BY <1>0, TouchedKeeps
  <2>2. Device(touched) /\ touched.lru = Touched(g.lru, m) /\ touched.graphs = g.graphs
        /\ SameHidden(g, touched) /\ touched.caps = g.caps
    BY <2>1 DEF Device, Fields, SameHidden
  <2>3. Live(touched)
    BY <2>1, <2>2 DEF Live
  <2> QED BY <1>0, <1>1, <2>2, <2>3, TouchedKeeps
<1>2. List(room) /\ \A held, k : k \in Nat /\ k <= weightProtect /\ Among(g.lru, held, k) => Among(room, held, k)
  BY <1>0, EnforcedKeeps DEF MadeRoom
<1>3. Device(evicted) /\ Live(evicted) /\ SameHidden(g, evicted) /\ evicted.caps = g.caps /\ evicted.lru = room
  BY <1>2, FreeKeeps
<1>4. CASE e = [gpu |-> tracked, rc |-> "ok", cost |-> None]
  <2>1. List(Touched(room, m)) /\ List(Enforced(Touched(room, m), g.caps))
    BY <1>2, TouchedKeeps, EnforcedKeeps
  <2>2. Device(tracked) /\ Live(tracked) /\ SameHidden(g, tracked) /\ tracked.caps = g.caps
        /\ tracked.lru = Enforced(Touched(room, m), g.caps)
    BY <1>3, <2>1, FreeKeeps DEF SameHidden
  <2>3. ASSUME NEW held, NEW k \in Nat, k < weightProtect, Among(g.lru, held, k)
        PROVE  Among(Enforced(Touched(room, m), g.caps), held \cup {m}, k + 1)
    <3>1. k <= weightProtect /\ k + 1 \in Nat /\ k + 1 <= weightProtect
      BY <2>3, ProtectAssumption
    <3>2. Among(room, held, k)
      BY <1>2, <2>3, <3>1
    <3>3. Among(Touched(room, m), held \cup {m}, k + 1)
      BY <1>2, <3>2, TouchedKeeps
    <3> QED BY <2>1, <3>1, <3>3, EnforcedKeeps
  <2> QED BY <1>4, <2>2, <2>3
<1>5. CASE e \in {[gpu |-> evicted, rc |-> "failed", cost |-> None],
                  [gpu |-> g, rc |-> "failed", cost |-> "upload"]}
  BY <1>3, <1>5 DEF SameHidden
<1> QED BY <1>1, <1>4, <1>5 DEF Ensure

\* Explicit evictions and new caps.
LEMMA EvictKeeps ==
  ASSUME NEW g, Device(g), NEW l, NEW m, NEW caps,
         NEW h \in {EvictMatricesWithPrefix(g, l), EvictQuantMatrix(g, m), SetWeightCacheLimits(g, caps)}
  PROVE  Device(h) /\ SameHidden(g, h) /\ (Live(g) => Live(h))
<1>0. List(g.lru) /\ Len(g.lru) \in Nat /\ DOMAIN g.lru = 1..Len(g.lru)
  BY DEF Device, List
<1>1. CASE h = EvictMatricesWithPrefix(g, l)
  <2> DEFINE kept == {i \in DOMAIN g.lru : g.lru[i][1] # l}
             nth(n) == CHOOSE i \in kept : Cardinality({j \in kept : j <= i}) = n
             rest == [n \in 1..Cardinality(kept) |-> g.lru[nth(n)]]
  <2>1. IsFiniteSet(1..Len(g.lru)) /\ kept \subseteq 1..Len(g.lru)
    BY <1>0, FS_Interval
  <2>2. Cardinality(kept) \in Nat
    BY <2>1, FS_Subset, FS_CardinalityType
  <2>3. h = freeWeights(g, rest)
    BY <1>1 DEF EvictMatricesWithPrefix
  <2> HIDE DEF nth, kept
  <2>4. rest \in Seq({g.lru[nth(n)] : n \in 1..Cardinality(kept)})
    BY <2>2
  <2>5. List(rest)
    BY <2>4, SequencesAreLists
  <2> QED BY <2>3, <2>5, FreeKeeps
<1>2. CASE h = EvictQuantMatrix(g, m)
  <2>1. List(Without(g.lru, m))
    BY <1>0, WithoutKeeps, SequencesAreLists
  <2> QED BY <1>2, <2>1, FreeKeeps DEF EvictQuantMatrix
<1>3. CASE h = SetWeightCacheLimits(g, caps)
  <2> DEFINE capped == [g EXCEPT !.caps = caps]
  <2>1. Device(capped) /\ SameHidden(g, capped) /\ (Live(g) => Live(capped))
    BY DEF Device, Fields, Live, SameHidden
  <2>2. List(Enforced(g.lru, caps))
    BY <1>0, EnforcedKeeps
  <2>3. h = freeWeights(capped, Enforced(g.lru, caps))
    BY <1>3 DEF SetWeightCacheLimits
  <2> HIDE DEF capped
  <2> QED BY <2>1, <2>2, <2>3, FreeKeeps DEF SameHidden
<1> QED BY <1>1, <1>2, <1>3

-----------------------------------------------------------------------------
(* What the kernels of an operation leave of a device.                       *)

\* Another state of the device with the same weight cache.
Same(g, h) == Device(h) /\ h.lru = g.lru /\ h.graphs = g.graphs /\ h.caps = g.caps

\* l is an outcome of operation o.  A graph it captures embeds what o holds; if
\* nothing went wrong the hidden state is still there, and an upload has worked.
Outcome(g, o, l) ==
  /\ Device(l.gpu) /\ l.gpu.lru = g.lru /\ l.gpu.caps = g.caps /\ l.gpu.graphs \subseteq g.graphs \cup {o.held}
  /\ l.gpu.active => g.active \/ o.kind \in {"upload", "attnout"}
  /\ l.cost = None /\ g.active /\ o.kind \notin {"upload", "download"}
       /\ (o.kind = "attnffn" => o.quant) => l.gpu.active
  /\ o.kind = "upload" => l.cost # None \/ (l.rc = "ok" /\ l.gpu.active)

\* A call that succeeds, and one that fails.
LEMMA OkOutcome ==
  ASSUME NEW g, NEW o, NEW h, NEW read, Same(g, h)
  PROVE  LET l == Ok(h, o, read)
         IN  /\ Device(l.gpu) /\ l.gpu.lru = g.lru /\ l.gpu.caps = g.caps /\ l.gpu.graphs \subseteq g.graphs \cup {o.held}
             /\ l.gpu.active = h.active /\ l.rc = "ok" /\ l.cost = None
BY DEF Same, Ok, Device, Fields

\* A launch that failed changes nothing of the cache and keeps whatever was active.
LEMMA FailsOutcome ==
  ASSUME NEW g, NEW o, NEW h, NEW cost, Same(g, h)
  PROVE  \A l \in {Fails(h, cost), FailsKV(h)} :
           /\ Device(l.gpu) /\ l.gpu.lru = g.lru /\ l.gpu.caps = g.caps /\ l.gpu.graphs \subseteq g.graphs \cup {o.held}
           /\ l.gpu.active = h.active /\ l.rc # "ok" /\ l.cost \in {cost, "kv"}
<1>1. /\ Fails(h, cost).gpu = h /\ Fails(h, cost).cost = cost /\ Fails(h, cost).rc # "ok"
      /\ FailsKV(h).gpu = h /\ FailsKV(h).cost = "kv" /\ FailsKV(h).rc # "ok"
  BY DEF Fails, FailsKV
<1> QED BY <1>1 DEF Same

\* What the residency bookkeeping does to a device leaves its cache alone.
LEMMA SameCleared ==
  ASSUME NEW g, NEW h, Same(g, h), NEW c
  PROVE  /\ Same(g, Overwritten(h)) /\ Overwritten(h).active = h.active
         /\ Same(g, clearResidencyLocked(h)) /\ ~clearResidencyLocked(h).active
         /\ Same(g, Activated(h, c)) /\ Activated(h, c).active
BY DEF Same, Device, Fields, Overwritten, clearResidencyLocked, Activated

\* An operation that leaves the hidden state alone.
LEMMA SameOutcome ==
  ASSUME NEW g, NEW o, NEW h, NEW read, NEW cost, Same(g, h), h.active = g.active,
         o.kind # "upload", NEW l \in {Ok(h, o, read), Fails(h, cost), FailsKV(h)}
  PROVE  Outcome(g, o, l)
BY OkOutcome, FailsOutcome DEF Outcome

\* An operation that takes it away, because something went wrong or on purpose.
LEMMA LostOutcome ==
  ASSUME NEW g, NEW o, NEW h, NEW read, NEW cost, Same(g, h), ~h.active, o.kind # "upload",
         NEW l, \/ l = Fails(h, cost) /\ cost # None
                \/ l = Ok(h, o, read) /\ o.kind = "download"
                \/ l \in {Ok(h, o, read), Fails(h, cost)} /\ o.kind = "attnffn" /\ ~o.quant
  PROVE  Outcome(g, o, l)
BY OkOutcome, FailsOutcome DEF Outcome, None

\* Products, attention and the operations on vectors of the host.
LEMMA VectorOutcome ==
  ASSUME NEW g, Device(g), NEW o, o.kind # "upload",
         NEW l \in MatMulVecCachedInto(g, o) \cup FFNSwiGLUCached(g, o) \cup MatMulMatCachedInto(g, o)
                     \cup GELUInPlace(g, o) \cup KVCacheAppendN(g, o) \cup AttentionScoresKV(g, o)
                     \cup QKVRoPEAttentionCached(g, o) \cup QKVRoPEAttentionQuantCached(g, o)
  PROVE  Outcome(g, o, l)
<1>0. Same(g, g)
  BY DEF Same
<1>1. CASE l \in MatMulVecCachedInto(g, o)
  <2> DEFINE named == [g EXCEPT !.lastVec = o.buf]
             sent == [named EXCEPT !.vec = Sent(g, o)]
  <2>1. Same(g, named) /\ named.active = g.active
    BY <1>0 DEF Same, Device, Fields
  <2>2. Same(g, sent) /\ sent.active = g.active
    BY <2>1 DEF Same, Device, Fields
  <2>3. l \in {Ok(sent, o, Input(Sent(g, o))), Fails(sent, "launch"), Fails(named, "pool")}
    BY <1>1 DEF MatMulVecCachedInto
  <2> HIDE DEF named, sent
  <2> QED BY <2>1, <2>2, <2>3, SameOutcome
<1>2. CASE l \in FFNSwiGLUCached(g, o) \cup MatMulMatCachedInto(g, o)
  <2>1. Same(g, Overwritten(g)) /\ Overwritten(g).active = g.active
    BY <1>0, SameCleared
  <2> QED BY <1>2, <2>1, SameOutcome DEF FFNSwiGLUCached, MatMulMatCachedInto
<1>3. Same(g, Stored(g, o, o.content)) /\ Stored(g, o, o.content).active = g.active
  BY <1>0 DEF Same, Stored, Device, Fields
<1>4. CASE l \in GELUInPlace(g, o) \cup KVCacheAppendN(g, o) \cup AttentionScoresKV(g, o)
  BY <1>0, <1>3, <1>4, SameOutcome DEF GELUInPlace, KVCacheAppendN, AttentionScoresKV
<1>5. ASSUME NEW read, l \in Attends(g, o, read)
      PROVE  Outcome(g, o, l)
  <2> DEFINE stored == Stored(g, o, At(read, "h"))
             used == Overwritten(stored)
             there == [used EXCEPT !.vec = At(read, "attn")]
             done == [there EXCEPT !.skipAttn = TRUE]
  <2>1. Same(g, stored) /\ stored.active = g.active
    BY <1>0 DEF Same, Stored, Device, Fields
  <2>2. Same(g, used) /\ used.active = g.active /\ Same(g, Overwritten(g)) /\ Overwritten(g).active = g.active
    BY <1>0, <2>1, SameCleared
  <2>3. Same(g, there) /\ there.active = g.active
    BY <2>2 DEF Same, Device, Fields
  <2>4. Same(g, done) /\ done.active = g.active
    BY <2>3 DEF Same, Device, Fields
  <2>5. l \in {Ok(done, o, [Input(read) EXCEPT !.rows = Rows(stored, o)]),
               Fails(Overwritten(g), "launch"), FailsKV(Overwritten(g))}
    BY <1>5 DEF Attends
  <2> HIDE DEF done, stored
  <2> QED BY <2>2, <2>4, <2>5, SameOutcome
<1> QED BY <1>1, <1>2, <1>4, <1>5 DEF QKVRoPEAttentionCached, QKVRoPEAttentionQuantCached

\* Output projection and FFN.
LEMMA ProjectionOutcome ==
  ASSUME NEW g, Device(g), NEW o,
         \/ o.kind = "attnffn" /\ o.quant
         \/ o.kind = "attnout",
         NEW l, \/ o.kind = "attnffn" /\ l \in AttnFFNResidualQuantCached(g, o)
                \/ o.kind = "attnout" /\ l \in AttnOutResidualNorm(g, o)
  PROVE  Outcome(g, o, l)
<1> DEFINE read == ReadsAttention(g, o)
           taken == [g EXCEPT !.skipAttn = FALSE]
           used == Overwritten(taken)
           next == [used EXCEPT !.resid = NextLayer(used.resid)]
           junk == [used EXCEPT !.resid = Junk]
           xa == [used EXCEPT !.resid = At(read.in, "xa")]
           hf == [xa EXCEPT !.moe = At(read.in, "hf")]
           norm == [hf EXCEPT !.active = TRUE]
<1>0. Same(g, g)
  BY DEF Same
<1>1. Same(g, taken) /\ taken.active = g.active
  BY <1>0 DEF Same, Device, Fields
<1>2. Same(g, used) /\ used.active = g.active /\ Same(g, Overwritten(g)) /\ Overwritten(g).active = g.active
  BY <1>0, <1>1, SameCleared
<1>3. Same(g, next) /\ next.active = g.active /\ Same(g, junk) /\ Same(g, xa)
  BY <1>2 DEF Same, Device, Fields
<1>4. Same(g, hf)
  BY <1>3 DEF Same, Device, Fields
<1>5. Same(g, norm) /\ norm.active
  BY <1>4 DEF Same, Device, Fields
<1>6. Same(g, Dirty(g, o)) /\ (Dirty(g, o).active => g.active)
  <2>1. Same(g, clearResidencyLocked(junk)) /\ ~clearResidencyLocked(junk).active
    BY <1>3, SameCleared
  <2>2. Dirty(g, o) \in {used, clearResidencyLocked(junk)}
    BY DEF Dirty
  <2> HIDE DEF used, junk
  <2> QED BY <1>2, <2>1, <2>2
<1>7. \/ l = Fails(Overwritten(g), None) \/ l = Fails(Overwritten(g), "pool") \/ l = Fails(Dirty(g, o), "launch")
      \/ l = Ok(next, o, read) \/ l = Ok(used, o, read)
      \/ o.kind = "attnout" /\ l = Ok(norm, o, read)
  <2>1. norm = [used EXCEPT !.resid = At(read.in, "xa"), !.moe = At(read.in, "hf"), !.active = TRUE]
    BY <1>2 DEF Same, Device
  <2>2. CASE o.kind = "attnffn"
    BY <2>2 DEF AttnFFNResidualQuantCached
  <2>3. CASE o.kind = "attnout"
    <3> HIDE DEF norm
    <3> QED BY <2>1, <2>3 DEF AttnOutResidualNorm
  <2> QED BY <2>2, <2>3
<1> HIDE DEF used, next, norm
<1>8. CASE l \in {Fails(Overwritten(g), None), Fails(Overwritten(g), "pool"), Ok(next, o, read), Ok(used, o, read)}
  BY <1>2, <1>3, <1>8, SameOutcome
<1>9. CASE l = Fails(Dirty(g, o), "launch")
  BY <1>6, <1>9, FailsOutcome DEF Outcome, None
<1>10. CASE o.kind = "attnout" /\ l = Ok(norm, o, read)
  BY <1>5, <1>10, OkOutcome DEF Outcome
<1> QED BY <1>7, <1>8, <1>9, <1>10

\* With FP32 matrices the hidden state is taken to the host first.
LEMMA FloatProjectionOutcome ==
  ASSUME NEW g, Device(g), NEW o, o.kind = "attnffn", ~o.quant, NEW l \in AttnFFNResidualCached(g, o)
  PROVE  Outcome(g, o, l)
<1> DEFINE c == clearResidencyLocked(g)
           read == ReadsAttention(c, o)
           used == Overwritten([c EXCEPT !.skipAttn = FALSE])
<1>0. Same(g, g)
  BY DEF Same
<1>1. Same(g, c) /\ ~c.active
  BY <1>0, SameCleared
<1>2. ~Resident(c, o)
  BY <1>1 DEF Resident
<1>3. Same(g, [c EXCEPT !.skipAttn = FALSE]) /\ ~[c EXCEPT !.skipAttn = FALSE].active
  BY <1>1 DEF Same, Device, Fields
<1>4. Same(g, used) /\ ~used.active /\ Same(g, Overwritten(c)) /\ ~Overwritten(c).active
  BY <1>1, <1>3, SameCleared
<1>5. l \in {Ok(used, o, read), Fails(used, "launch"), Fails(Overwritten(c), "pool")}
  BY <1>2 DEF AttnFFNResidualCached, AttnFFNResidualQuantCached, Dirty
<1> HIDE DEF used, c, read
<1> QED BY <1>4, <1>5, LostOutcome

\* Experts, and what is done with the resident hidden state.
LEMMA HiddenOutcome ==
  ASSUME NEW g, Device(g), NEW o,
         NEW l, \/ o.kind = "router" /\ l \in MatMulVecFromMoEHidden(g, o)
                \/ o.kind = "expert" /\ l \in FFNSwiGLUMoEAccumulate(g, o)
                \/ o.kind = "logits" /\ l \in LogitsFromDevice(g, o)
                \/ o.kind = "lnresid" /\ l \in LayerNormResidInto(g, o)
                \/ o.kind = "residadd" /\ l \in ResidAdd(g, o)
                \/ o.kind = "download" /\ l \in HiddenDownload(g, o)
                \/ o.kind = "upload" /\ l \in HiddenUpload(g, o)
  PROVE  Outcome(g, o, l)
<1>0. Same(g, g)
  BY DEF Same
<1>1. Same(g, Overwritten(g)) /\ Overwritten(g).active = g.active
  BY <1>0, SameCleared
<1>2. ASSUME NEW v
      PROVE  /\ Same(g, [g EXCEPT !.resid = v]) /\ [g EXCEPT !.resid = v].active = g.active
             /\ Same(g, [g EXCEPT !.vec = v]) /\ [g EXCEPT !.vec = v].active = g.active
  BY <1>0 DEF Same, Device, Fields
<1>3. ASSUME NEW v
      PROVE  LET h == Overwritten([g EXCEPT !.resid = v]) IN Same(g, h) /\ h.active = g.active
  <2>1. Same(g, [g EXCEPT !.resid = v]) /\ [g EXCEPT !.resid = v].active = g.active
    BY <1>2
  <2> QED BY <2>1, SameCleared
<1>4. CASE o.kind = "router"
  BY <1>0, <1>1, <1>4, SameOutcome DEF MatMulVecFromMoEHidden
<1>5. CASE o.kind = "expert"
  <2> DEFINE next == IF g.resid.at = "xa" THEN At(g.resid, "part") ELSE NextLayer(g.resid)
             added == Overwritten([g EXCEPT !.resid = next])
             lost == Overwritten([g EXCEPT !.resid = Junk])
             read == [Input(g.resid) EXCEPT !.attn = g.moe]
  <2>1. Same(g, added) /\ added.active = g.active /\ Same(g, lost) /\ lost.active = g.active
    BY <1>3
  <2>2. l \in {Fails(Overwritten(g), None), Ok(added, o, read), Fails(lost, "launch"),
               Fails(Overwritten(g), "pool")}
    BY <1>5 DEF FFNSwiGLUMoEAccumulate
  <2> HIDE DEF added, lost, read
  <2> QED BY <1>1, <1>5, <2>1, <2>2, SameOutcome
<1>6. CASE o.kind = "logits"
  BY <1>0, <1>1, <1>6, SameOutcome DEF LogitsFromDevice
<1>7. CASE o.kind = "lnresid"
  <2> DEFINE h == [g EXCEPT !.vec = At(g.resid, "h")]
  <2>1. Same(g, h) /\ h.active = g.active
    BY <1>2
  <2>2. l \in {Fails(g, None), Ok(h, o, Input(g.resid)), Fails(g, "launch")}
    BY <1>7 DEF LayerNormResidInto
  <2> HIDE DEF h
  <2> QED BY <1>0, <1>7, <2>1, <2>2, SameOutcome
<1>8. CASE o.kind = "residadd"
  <2> DEFINE next == IF g.resid.at = "x" THEN At(g.resid, "xa") ELSE NextLayer(g.resid)
             added == [g EXCEPT !.resid = next]
             lost == [g EXCEPT !.resid = Junk]
             read == [Input(g.resid) EXCEPT !.attn = o.attn]
  <2>1. Same(g, added) /\ added.active = g.active /\ Same(g, lost) /\ lost.active = g.active
    BY <1>2
  <2>2. l \in {Fails(g, None), Ok(added, o, read), Fails(lost, "launch"), Fails(g, "pool")}
    BY <1>8 DEF ResidAdd
  <2> HIDE DEF added, lost, read
  <2> QED BY <1>0, <1>8, <2>1, <2>2, SameOutcome
<1>9. CASE o.kind = "download"
  <2> DEFINE c == clearResidencyLocked(g)
  <2>1. Same(g, c) /\ ~c.active
    BY <1>0, SameCleared
  <2>2. l \in {Fails(g, None), Ok(c, o, Input(g.resid)), Fails(c, "launch")}
    BY <1>9 DEF HiddenDownload
  <2> HIDE DEF c
  <2>3. CASE l = Fails(g, None)
    BY <1>0, <1>9, <2>3, SameOutcome
  <2>4. CASE l = Ok(c, o, Input(g.resid)) \/ l = Fails(c, "launch")
    <3>1. CASE l = Ok(c, o, Input(g.resid))
      BY <1>9, <2>1, <3>1, LostOutcome
    <3>2. CASE l = Fails(c, "launch")
      <4>1. Device(l.gpu) /\ l.gpu.lru = g.lru /\ l.gpu.caps = g.caps /\ l.gpu.graphs \subseteq g.graphs \cup {o.held}
            /\ ~l.gpu.active
        BY <2>1, <3>2, FailsOutcome
      <4> QED BY <1>9, <4>1 DEF Outcome
    <3> QED BY <2>4, <3>1, <3>2
  <2> QED BY <2>2, <2>3, <2>4
<1>10. CASE o.kind = "upload"
  <2> DEFINE a == Activated(g, o.content)
             n == [g EXCEPT !.active = FALSE]
  <2>1. Same(g, a) /\ a.active
    BY <1>0, SameCleared
  <2>2. Same(g, n) /\ ~n.active
    BY <1>0 DEF Same, Device, Fields
  <2>3. l \in {Ok(a, o, Input(o.content)), Fails(n, "launch")}
    BY <1>10 DEF HiddenUpload
  <2> HIDE DEF a, n
  <2>4. CASE l = Ok(a, o, Input(o.content))
    BY <1>10, <2>1, <2>4, OkOutcome DEF Outcome
  <2>5. CASE l = Fails(n, "launch")
    <3>1. /\ Device(l.gpu) /\ l.gpu.lru = g.lru /\ l.gpu.caps = g.caps /\ l.gpu.graphs \subseteq g.graphs \cup {o.held}
          /\ ~l.gpu.active /\ l.cost \in {"launch", "kv"}
      BY <2>2, <2>5, FailsOutcome
    <3>2. l.cost # None
      BY <3>1 DEF None
    <3> QED BY <1>10, <3>1, <3>2 DEF Outcome
  <2> QED BY <2>3, <2>4, <2>5
<1> QED BY <1>4, <1>5, <1>6, <1>7, <1>8, <1>9, <1>10

\* Every kernel of the backend leaves cache, graphs and residency as an operation may.
LEMMA LaunchOutcome ==
  ASSUME NEW g, Device(g), NEW o, o.kind \in Kinds, o.quant \in BOOLEAN, NEW l \in Launches(g, o)
  PROVE  Outcome(g, o, l)
<1>1. CASE o.kind \in {"matmul", "ffn", "gemm", "qkv"}
  <2>1. Launches(g, o) = IF o.quant THEN OfQuant(g, o) ELSE OfFloats(g, o)
    BY <1>1, Zenon DEF Launches
  <2>2. o.kind = "matmul" => OfQuant(g, o) = matMulVecQuantCachedInto(g, o) /\ OfFloats(g, o) = MatMulVecCachedInto(g, o)
    BY Zenon DEF OfQuant, OfFloats
  <2>3. o.kind = "ffn" => OfQuant(g, o) = ffnGatedQuantCached(g, o) /\ OfFloats(g, o) = FFNSwiGLUCached(g, o)
    BY Zenon DEF OfQuant, OfFloats
  <2>4. o.kind = "gemm" => OfQuant(g, o) = matMulMatQuantCachedInto(g, o) /\ OfFloats(g, o) = MatMulMatCachedInto(g, o)
    BY Zenon DEF OfQuant, OfFloats
  <2>5. o.kind = "qkv" => OfQuant(g, o) = QKVRoPEAttentionQuantCached(g, o) /\ OfFloats(g, o) = QKVRoPEAttentionCached(g, o)
    BY Zenon DEF OfQuant, OfFloats
  <2>6. l \in MatMulVecCachedInto(g, o) \cup FFNSwiGLUCached(g, o) \cup MatMulMatCachedInto(g, o)
          \cup QKVRoPEAttentionCached(g, o) \cup QKVRoPEAttentionQuantCached(g, o)
    BY <1>1, <2>1, <2>2, <2>3, <2>4, <2>5 DEF matMulVecQuantCachedInto, ffnGatedQuantCached,
       matMulMatQuantCachedInto
  <2>7. o.kind # "upload"
    BY <1>1
  <2> QED BY <2>6, <2>7, VectorOutcome
<1>2. CASE o.kind = "attnffn"
  <2>1. Launches(g, o) = IF o.quant THEN OfQuant(g, o) ELSE OfFloats(g, o)
    BY <1>2, Zenon DEF Launches
  <2>2. OfQuant(g, o) = AttnFFNResidualQuantCached(g, o) /\ OfFloats(g, o) = AttnFFNResidualCached(g, o)
    BY <1>2, Zenon DEF OfQuant, OfFloats
  <2> QED BY <1>2, <2>1, <2>2, ProjectionOutcome, FloatProjectionOutcome
<1>3. CASE o.kind \in {"act", "append", "scores"}
  <2>1. /\ o.kind = "act" => Launches(g, o) = GELUInPlace(g, o)
        /\ o.kind = "append" => Launches(g, o) = KVCacheAppendN(g, o)
        /\ o.kind = "scores" => Launches(g, o) = AttentionScoresKV(g, o)
    BY Zenon DEF Launches
  <2>2. l \in GELUInPlace(g, o) \cup KVCacheAppendN(g, o) \cup AttentionScoresKV(g, o) /\ o.kind # "upload"
    BY <1>3, <2>1
  <2> QED BY <2>2, VectorOutcome
<1>4. CASE o.kind = "attnout"
  <2>1. Launches(g, o) = AttnOutResidualNorm(g, o)
    BY <1>4, Zenon DEF Launches
  <2> QED BY <1>4, <2>1, ProjectionOutcome
<1>5. CASE o.kind \in {"router", "expert", "logits", "lnresid", "residadd", "download", "upload"}
  <2>1. o.kind = "router" => Launches(g, o) = MatMulVecFromMoEHidden(g, o)
    BY Zenon DEF Launches
  <2>2. o.kind = "expert" => Launches(g, o) = FFNSwiGLUMoEAccumulate(g, o)
    BY Zenon DEF Launches
  <2>3. o.kind = "logits" => Launches(g, o) = LogitsFromDevice(g, o)
    BY Zenon DEF Launches
  <2>4. o.kind = "lnresid" => Launches(g, o) = LayerNormResidInto(g, o)
    BY Zenon DEF Launches
  <2>5. o.kind = "residadd" => Launches(g, o) = ResidAdd(g, o)
    BY Zenon DEF Launches
  <2>6. o.kind = "download" => Launches(g, o) = HiddenDownload(g, o)
    BY Zenon DEF Launches
  <2>7. o.kind = "upload" => Launches(g, o) = HiddenUpload(g, o)
    BY Zenon DEF Launches
  <2> QED BY <1>5, <2>1, <2>2, <2>3, <2>4, <2>5, <2>6, <2>7, HiddenOutcome
<1> QED BY <1>1, <1>2, <1>3, <1>4, <1>5 DEF Kinds

-----------------------------------------------------------------------------
(* Where an operation runs.                                                  *)

\* Every layer belongs to a device, also one outside of the plan.
LEMMA OwnerIsDevice ==
  ASSUME NEW n \in Nat \ {0}, NEW bounds, DOMAIN bounds = 0..n, NEW layer
  PROVE  OwnerOf(bounds, layer) \in 0..n-1
<1> DEFINE owners == {i \in DOMAIN bounds \ {0} : bounds[i - 1] <= layer /\ layer < bounds[i]}
           busy == {i \in DOMAIN bounds \ {0} : bounds[i - 1] < bounds[i]}
           owner == CHOOSE i \in owners : TRUE
           last == CHOOSE i \in busy : \A j \in busy : j <= i
<1>1. owners \subseteq 1..n /\ busy \subseteq 1..n
  OBVIOUS
<1>2. OwnerOf(bounds, layer) = IF owners # {} THEN owner - 1 ELSE IF busy # {} THEN last - 1 ELSE 0
  BY DEF OwnerOf
<1>3. owners # {} => owner \in owners
  OBVIOUS
<1>4. busy # {} => last \in busy
  <2> HIDE DEF busy
  <2>1. busy \in SUBSET (0..n)
    BY <1>1
  <2>2. busy # {} => \E i \in busy : \A j \in busy : j <= i
    BY <2>1, Greatest
  <2> QED BY <2>2
<1> HIDE DEF owners, busy, owner, last
<1>5. CASE owners # {}
  <2>1. owner \in 1..n
    BY <1>1, <1>3, <1>5
  <2> QED BY <1>2, <1>5, <2>1
<1>6. CASE owners = {} /\ busy # {}
  <2>1. last \in 1..n
    BY <1>1, <1>4, <1>6
  <2> QED BY <1>2, <1>6, <2>1
<1>7. CASE owners = {} /\ busy = {}
  BY <1>2, <1>7
<1> QED BY <1>5, <1>6, <1>7

\* All devices keep their weight caches.
Unmoved(g) == DOMAIN g = Devices /\ g = [d \in Devices |-> g[d]] /\ \A d \in Devices : Same(gpu[d], g[d])

\* The hidden state has gone where the operation runs, or is lost.
Moved(a) ==
  /\ Split(a.multi) /\ Unmoved(a.gpu)
  /\ ActiveHere => OnlyAt(a.gpu, a.multi.cur)
  /\ ActiveHere /\ gpu[multi.cur].active /\ a.cost = None => a.gpu[a.multi.cur].active

\* The way through the host leaves the hidden state on one device, or on none.
LEMMA BounceMoves ==
  ASSUME NEW src \in Devices, NEW dst \in Devices, src # dst, NEW g, Unmoved(g), NEW broken,
         Split(multi), multi.cur = src, NEW a \in Bounce(g, src, dst, broken)
  PROVE  /\ Split(a.multi) /\ Unmoved(a.gpu)
         /\ OnlyAt(g, src) => OnlyAt(a.gpu, a.multi.cur)
         /\ a.cost = None => a.gpu[a.multi.cur].active
<1> DEFINE left == [g EXCEPT ![src] = clearResidencyLocked(g[src])]
           there == [multi EXCEPT !.cur = dst, !.broken = broken]
           here == [multi EXCEPT !.broken = broken]
           kept == [left EXCEPT ![dst] = Activated(left[dst], g[src].resid)]
           gone == [left EXCEPT ![dst] = [left[dst] EXCEPT !.active = FALSE]]
<1>1. Split(there) /\ there.cur = dst /\ Split(here) /\ here.cur = src
  BY DEF Split, Plan
<1>2. /\ Same(gpu[src], clearResidencyLocked(g[src])) /\ ~clearResidencyLocked(g[src]).active
      /\ Same(gpu[dst], Activated(g[dst], g[src].resid)) /\ Activated(g[dst], g[src].resid).active
  BY SameCleared DEF Unmoved
<1>3. Same(gpu[dst], [g[dst] EXCEPT !.active = FALSE]) /\ ~[g[dst] EXCEPT !.active = FALSE].active
  <2>1. Same(gpu[dst], g[dst])
    BY DEF Unmoved
  <2> QED BY <2>1 DEF Same, Device, Fields
<1>4. Unmoved(left) /\ left[dst] = g[dst] /\ ~left[src].active
      /\ \A d \in Devices \ {src} : left[d] = g[d]
  BY <1>2 DEF Unmoved
<1> HIDE DEF left, there, here
<1>5. Unmoved(kept) /\ kept[dst].active /\ \A d \in Devices \ {dst} : kept[d] = left[d]
  BY <1>2, <1>4 DEF Unmoved
<1>6. Unmoved(gone) /\ ~gone[dst].active /\ \A d \in Devices \ {dst} : gone[d] = left[d]
  BY <1>3, <1>4 DEF Unmoved
<1>7. a \in {Arrives(kept, there, "ok", None), Arrives(left, here, "failed", "download"),
             Arrives(gone, here, "failed", "upload")}
  BY DEF Bounce, left, there, here
<1> HIDE DEF kept, gone
<1>8. CASE a = Arrives(kept, there, "ok", None)
  BY <1>1, <1>4, <1>5, <1>8 DEF Arrives, OnlyAt
<1>9. CASE a = Arrives(left, here, "failed", "download")
  BY <1>1, <1>4, <1>9 DEF Arrives, OnlyAt, None
<1>10. CASE a = Arrives(gone, here, "failed", "upload")
  BY <1>1, <1>4, <1>6, <1>10 DEF Arrives, OnlyAt, None
<1> QED BY <1>7, <1>8, <1>9, <1>10

\* So does the copy between two devices, and what serves when it fails.
LEMMA PeerMoves ==
  ASSUME NEW src \in Devices, NEW dst \in Devices, src # dst, Unmoved(gpu),
         Split(multi), multi.cur = src, NEW a \in Peer(src, dst)
  PROVE  Moved(a)
<1>1. PICK p \in PeerCopyResidTo(gpu[src], gpu[dst]) :
        a \in (IF p.rc = "ok"
               THEN {Arrives([gpu EXCEPT ![src] = p.src, ![dst] = p.dst], [multi EXCEPT !.cur = dst], "ok", None)}
               ELSE {[b EXCEPT !.cost = p.cost] :
                      b \in {c \in Bounce([gpu EXCEPT ![dst] = p.dst], src, dst,
                                          multi.broken \cup Pair(src, dst)) : c.cost = None}})
  BY DEF Peer
<1>2. /\ Same(gpu[src], clearResidencyLocked(gpu[src])) /\ ~clearResidencyLocked(gpu[src]).active
      /\ Same(gpu[dst], Activated(gpu[dst], gpu[src].resid)) /\ Activated(gpu[dst], gpu[src].resid).active
      /\ Same(gpu[dst], clearResidencyLocked(gpu[dst])) /\ ~clearResidencyLocked(gpu[dst]).active
  BY SameCleared DEF Unmoved
<1>3. CASE p = [src |-> clearResidencyLocked(gpu[src]), dst |-> Activated(gpu[dst], gpu[src].resid),
                rc |-> "ok", cost |-> None]
  <2> DEFINE g == [gpu EXCEPT ![src] = p.src, ![dst] = p.dst]
             m == [multi EXCEPT !.cur = dst]
  <2>1. a = Arrives(g, m, "ok", None)
    BY <1>1, <1>3
  <2>2. Unmoved(g) /\ g[dst].active /\ ~g[src].active /\ \A d \in Devices \ {src, dst} : g[d] = gpu[d]
    BY <1>2, <1>3 DEF Unmoved
  <2>3. Split(m) /\ m.cur = dst
    BY DEF Split, Plan
  <2> HIDE DEF g, m
  <2> QED BY <2>1, <2>2, <2>3 DEF Moved, Arrives, ActiveHere, OnlyAt
<1>4. CASE p = [src |-> gpu[src], dst |-> clearResidencyLocked(gpu[dst]), rc |-> "failed", cost |-> "peer"]
  <2> DEFINE g == [gpu EXCEPT ![dst] = p.dst]
             broken == multi.broken \cup Pair(src, dst)
  <2>1. PICK b \in Bounce(g, src, dst, broken) : a = [b EXCEPT !.cost = "peer"]
    BY <1>1, <1>4
  <2>2. Unmoved(g) /\ (ActiveHere => OnlyAt(g, src))
    BY <1>2, <1>4 DEF Unmoved, ActiveHere, OnlyAt
  <2>3. a.gpu = b.gpu /\ a.multi = b.multi /\ a.cost # None
    <3>1. \E x, y, z, u : b = Arrives(x, y, z, u)
      BY <2>1 DEF Bounce
    <3> QED BY <2>1, <3>1 DEF Arrives, None
  <2> HIDE DEF g
  <2> QED BY <2>1, <2>2, <2>3, BounceMoves DEF Moved
<1> QED BY <1>1, <1>3, <1>4 DEF PeerCopyResidTo

\* So does every operation that belongs to a layer.
LEMMA RouteMoves ==
  ASSUME Machine, NEW layer, NEW a \in route(layer)
  PROVE  Moved(a)
<1> DEFINE src == multi.cur
           dst == deviceForLayer(layer)
<1>1. cfg.devices \in Nat \ {0} /\ Devices = 0..cfg.devices-1
  BY SizesAssumption DEF Machine, ConfigsAssumption, Devices
<1>2. Split(multi) /\ src \in Devices /\ DOMAIN multi.bounds = 0..cfg.devices
  BY DEF Machine, Split
<1>3. dst \in Devices
  BY <1>1, <1>2, OwnerIsDevice DEF deviceForLayer
<1>4. Unmoved(gpu)
  BY DEF Machine, Unmoved, Same
<1>5. CASE dst = src
  <2>1. a = Arrives(gpu, multi, "ok", None)
    BY <1>5 DEF route
  <2> QED BY <1>2, <1>4, <2>1 DEF Moved, Arrives, ActiveHere, OnlyAt
<1>6. CASE dst # src /\ ~gpu[src].active
  <2> DEFINE m == [multi EXCEPT !.cur = dst]
  <2>1. a = Arrives(gpu, m, "ok", None)
    BY <1>6 DEF route, moveHiddenLocked
  <2>2. Split(m) /\ m.cur = dst
    BY <1>2, <1>3 DEF Split, Plan
  <2> HIDE DEF m
  <2> QED BY <1>4, <1>6, <2>1, <2>2 DEF Moved, Arrives, ActiveHere, OnlyAt
<1>7. CASE dst # src /\ a \in Peer(src, dst)
  <2> HIDE DEF src, dst
  <2>1. multi.cur = src
    BY DEF src
  <2> QED BY <1>2, <1>3, <1>4, <1>7, <2>1, PeerMoves
<1>8. CASE dst # src /\ a \in Bounce(gpu, src, dst, multi.broken \cup Pair(src, dst))
  <2>1. /\ Split(a.multi) /\ Unmoved(a.gpu)
        /\ OnlyAt(gpu, src) => OnlyAt(a.gpu, a.multi.cur)
        /\ a.cost = None => a.gpu[a.multi.cur].active
    <3> HIDE DEF src, dst
    <3>1. multi.cur = src
      BY DEF src
    <3> QED BY <1>2, <1>3, <1>4, <1>8, <3>1, BounceMoves
  <2> QED BY <2>1 DEF Moved, ActiveHere, OnlyAt
<1> QED BY <1>5, <1>6, <1>7, <1>8 DEF route, moveHiddenLocked

\* An operation reaches its device with the hidden state, if nothing goes
\* wrong, and an upload finds no other device that has one.
LEMMA ReachMoves ==
  ASSUME Machine, NEW o, NEW a \in Reach(o)
  PROVE  /\ o.kind # "upload" => Moved(a)
         /\ o.kind = "upload" => /\ Split(a.multi) /\ Unmoved(a.gpu) /\ OnlyAt(a.gpu, a.multi.cur)
                                 /\ a.rc = "ok" /\ a.cost = None
<1>1. cfg.devices \in Nat \ {0} /\ Devices = 0..cfg.devices-1
  BY SizesAssumption DEF Machine, ConfigsAssumption, Devices
<1>2. Split(multi) /\ DOMAIN multi.bounds = 0..cfg.devices /\ Unmoved(gpu)
  BY DEF Machine, Split, Unmoved, Same
<1>3. CASE o.kind \in Routed
  BY <1>3, RouteMoves DEF Reach, Routed
<1>4. CASE o.kind = "upload"
  <2> DEFINE first == deviceForLayer(0)
             m == [multi EXCEPT !.cur = first]
             g == [d \in Devices |-> IF d # first /\ gpu[d].active THEN clearResidencyLocked(gpu[d]) ELSE gpu[d]]
  <2>1. first \in Devices
    BY <1>1, <1>2, OwnerIsDevice DEF deviceForLayer
  <2>2. a = Arrives(g, m, "ok", None)
    BY <1>4 DEF Reach, Routed, HiddenUploadFirst
  <2>3. ASSUME NEW d \in Devices
        PROVE  Same(gpu[d], g[d]) /\ (g[d].active => d = first)
    <3>1. Same(gpu[d], gpu[d])
      BY <1>2 DEF Unmoved
    <3> QED BY <3>1, SameCleared
  <2>4. Split(m) /\ m.cur = first
    BY <1>2, <2>1 DEF Split, Plan
  <2>5. Unmoved(g)
    BY <2>3 DEF Unmoved
  <2> HIDE DEF m, g
  <2> QED BY <1>4, <2>2, <2>3, <2>4, <2>5 DEF Arrives, OnlyAt
<1>5. CASE o.kind \notin Routed \cup {"upload"}
  <2>1. a = Arrives(gpu, multi, "ok", None)
    BY <1>5 DEF Reach
  <2> QED BY <1>2, <1>5, <2>1 DEF Moved, Arrives, ActiveHere, OnlyAt
<1> QED BY <1>3, <1>4, <1>5

-----------------------------------------------------------------------------
(* The calls of the steps.                                                   *)

Calls(kind, uses, buf) == \E want : CallOf(run.step) = Call(kind, uses, buf, want)
CallsProduct(name, buf) == \E want : CallOf(run.step) = Product(name, buf, want)

\* The calls of a token whose hidden state is resident.
LEMMA ResidentCalls ==
  /\ run.step = "gather" => Calls("gather", <<<<NumLayers, "token_embd">>>>, "x")
  /\ run.step = "upload" => Calls("upload", <<>>, "x")
  /\ run.step = "rqkv" => Calls("qkv", W(QKV \o <<"attn_norm">>), None)
  /\ run.step = "rattnffn" => Calls("attnffn", W(AttnFFN), None)
  /\ run.step = "rattnout" => Calls("attnout", W(OutNorm), None)
  /\ run.step = "rrouter" => Calls("router", W(<<"router">>), None)
  /\ run.step = "rexpert" => Calls("expert", W(Expert(1)), None)
  /\ run.step = "rexpert2" => Calls("expert", W(Expert(2)), None)
  /\ run.step = "rln" => Calls("lnresid", W(<<"attn_norm", "attn_bias">>), None)
  /\ run.step = "radd" => Calls("residadd", <<>>, "out")
  /\ run.step = "radd2" => Calls("residadd", <<>>, "out")
  /\ run.step = "recover" => Calls("download", <<>>, "x")
  /\ run.step = "rlogits" => Calls("logits", HeadWeights, None)
  /\ run.step = "sync" => Calls("download", <<>>, "x")
BY Zenon DEF CallOf, ResidentSteps, ResidentCall, Calls, CallsProduct

\* The calls of a token whose hidden state is on the host.
LEMMA HostCalls ==
  /\ run.step = "hqkv" => Calls("qkv", W(QKV), "h")
  /\ run.step = "q" => CallsProduct("attn_q", "h")
  /\ run.step = "k" => CallsProduct("attn_k", "h")
  /\ run.step = "v" => CallsProduct("attn_v", "h")
  /\ run.step = "append" => Calls("append", <<>>, None)
  /\ run.step = "rebuild" => Calls("append", <<>>, None)
  /\ run.step = "scores" => Calls("scores", IF cfg.family = "mla" THEN W(<<"k_b", "v_b">>) ELSE <<>>, None)
  /\ run.step = "hattnffn" => Calls("attnffn", W(AttnFFN), "x")
  /\ run.step = "wo" => CallsProduct("attn_output", "attn")
  /\ run.step = "ffn" => Calls("ffn", W(FFN), "h")
  /\ run.step = "gate" => CallsProduct("ffn_gate", "h")
  /\ run.step = "up" => CallsProduct("ffn_up", "h")
  /\ run.step = "act" => Calls("act", <<>>, None)
  /\ run.step = "down" => CallsProduct("ffn_down", "act")
  /\ run.step = "router" => CallsProduct("router", "h")
  /\ run.step = "expert" => Calls("ffn", W(Expert(1)), "h")
  /\ run.step = "expert2" => Calls("ffn", W(Expert(2)), "h")
  /\ run.step = "hupload" => Calls("upload", <<>>, "x")
  /\ run.step = "hlogits" => Calls("logits", HeadWeights, None)
  /\ run.step = "release" => Calls("download", <<>>, None)
BY Zenon DEF CallOf, ResidentSteps, HostCall, Calls, CallsProduct

Names ==
  {"attn_q", "attn_k", "attn_v", "q_norm", "k_norm", "attn_norm", "attn_output", "ffn_norm",
   "post_attn", "post_ffn", "ffn_gate", "ffn_up", "ffn_down", "gate.1", "up.1", "down.1",
   "gate.2", "up.2", "down.2"}

\* The length of two sequences in a row.
LEMMA Joined ==
  ASSUME NEW S, NEW s \in Seq(S), NEW t \in Seq(S)
  PROVE  s \o t \in Seq(S) /\ Len(s \o t) = Len(s) + Len(t)
OBVIOUS

\* The matrices of a layer, by their names.
LEMMA NamesAreUses ==
  ASSUME NEW S, NEW names \in Seq(S)
  PROVE  List(W(names)) /\ Len(W(names)) = Len(names)
<1>1. W(names) \in Seq({<<run.layer, names[i]>> : i \in DOMAIN names}) /\ Len(W(names)) = Len(names)
  BY DEF W
<1> QED BY <1>1, SequencesAreLists

\* How many matrices the calls have, each counted by its list of names.
LEMMA FewMatrices ==
  /\ \A a : List(W(<<a>>)) /\ Len(W(<<a>>)) = 1
  /\ \A a, b : List(W(<<a, b>>)) /\ Len(W(<<a, b>>)) = 2
  /\ \A i : List(W(Expert(i))) /\ Len(W(Expert(i))) = 3
  /\ List(W(FFN)) /\ Len(W(FFN)) = 3
  /\ List(W(OutNorm)) /\ Len(W(OutNorm)) = 2
  /\ List(W(QKV)) /\ Len(W(QKV)) = 5
  /\ List(W(QKV \o <<"attn_norm">>)) /\ Len(W(QKV \o <<"attn_norm">>)) = 6
  /\ List(W(AttnFFN)) /\ Len(W(AttnFFN)) \in {5, 7}
  /\ List(HeadWeights) /\ Len(HeadWeights) = 2
  /\ \A a : List(<<a>>) /\ Len(<<a>>) = 1
  /\ List(<<>>) /\ Len(<<>>) = 0
<1>1. ASSUME NEW a PROVE <<a>> \in Seq({a}) /\ Len(<<a>>) = 1
  OBVIOUS
<1>2. ASSUME NEW a, NEW b PROVE <<a, b>> \in Seq({a, b}) /\ Len(<<a, b>>) = 2
  OBVIOUS
<1>3. ASSUME NEW i PROVE Expert(i) \in Seq(Names) /\ Len(Expert(i)) = 3
  <2>1. ASSUME NEW a \in Names, NEW b \in Names, NEW c \in Names
        PROVE  <<a, b, c>> \in Seq(Names) /\ Len(<<a, b, c>>) = 3
    <3> HIDE DEF Names
    <3> QED OBVIOUS
  <2>2. {"gate.1", "up.1", "down.1", "gate.2", "up.2", "down.2"} \subseteq Names
    BY DEF Names
  <2> HIDE DEF Names
  <2> QED BY <2>1, <2>2 DEF Expert
<1>4. /\ FFN \in Seq(Names) /\ Len(FFN) = 3
      /\ OutNorm \in Seq(Names) /\ Len(OutNorm) = 2
      /\ QKV \in Seq(Names) /\ Len(QKV) = 5
      /\ <<"attn_norm">> \in Seq(Names) /\ Len(<<"attn_norm">>) = 1
      /\ <<"post_attn", "post_ffn">> \in Seq(Names) /\ Len(<<"post_attn", "post_ffn">>) = 2
      /\ <<>> \in Seq(Names) /\ Len(<<>>) = 0
  <2>1. {"attn_q", "attn_k", "attn_v", "q_norm", "k_norm", "attn_norm", "attn_output", "ffn_norm",
         "post_attn", "post_ffn", "ffn_gate", "ffn_up", "ffn_down"} \subseteq Names
    BY DEF Names
  <2> HIDE DEF Names
  <2> QED BY <2>1 DEF FFN, OutNorm, QKV
<1>5. QKV \o <<"attn_norm">> \in Seq(Names) /\ Len(QKV \o <<"attn_norm">>) = 6
  <2> DEFINE norm == <<"attn_norm">>
  <2>1. QKV \in Seq(Names) /\ Len(QKV) = 5 /\ norm \in Seq(Names) /\ Len(norm) = 1
    BY <1>4
  <2> HIDE DEF norm
  <2>2. QKV \o norm \in Seq(Names) /\ Len(QKV \o norm) = Len(QKV) + Len(norm)
    BY <2>1, Joined, Zenon
  <2>3. QKV \o norm \in Seq(Names) /\ Len(QKV \o norm) = 6
    BY <2>1, <2>2
  <2> QED BY <2>3 DEF norm
<1>6. AttnFFN \in Seq(Names) /\ Len(AttnFFN) \in {5, 7}
  <2> DEFINE norms == IF cfg.postNorms THEN <<"post_attn", "post_ffn">> ELSE <<>>
  <2>1. norms \in Seq(Names) /\ Len(norms) \in {0, 2}
    BY <1>4
  <2>2. AttnFFN = (OutNorm \o norms) \o FFN
    BY DEF AttnFFN
  <2> HIDE DEF norms
  <2>3. /\ FFN \in Seq(Names) /\ Len(FFN) = 3
        /\ OutNorm \in Seq(Names) /\ Len(OutNorm) = 2
    BY <1>4
  <2>4. OutNorm \o norms \in Seq(Names) /\ Len(OutNorm \o norms) \in {2, 4}
    <3>1. OutNorm \o norms \in Seq(Names) /\ Len(OutNorm \o norms) = Len(OutNorm) + Len(norms)
      BY <2>1, <2>3, Joined, Zenon
    <3> QED BY <2>1, <2>3, <3>1
  <2>5. AttnFFN \in Seq(Names) /\ Len(AttnFFN) = Len(OutNorm \o norms) + Len(FFN)
    BY <2>2, <2>3, <2>4, Joined, Zenon
  <2> QED BY <2>3, <2>4, <2>5
<1>7. HeadWeights \in Seq({<<NumLayers, "out_norm">>, <<NumLayers, "head">>}) /\ Len(HeadWeights) = 2
  BY DEF HeadWeights
<1>8. \A a : List(W(<<a>>)) /\ Len(W(<<a>>)) = 1
  BY <1>1, NamesAreUses
<1>9. \A a, b : List(W(<<a, b>>)) /\ Len(W(<<a, b>>)) = 2
  <2>1. ASSUME NEW a, NEW b PROVE List(W(<<a, b>>)) /\ Len(W(<<a, b>>)) = 2
    <3>1. <<a, b>> \in Seq({a, b}) /\ Len(<<a, b>>) = 2
      BY <1>2
    <3> HIDE <1>2
    <3> QED BY <3>1, NamesAreUses
  <2> QED BY <2>1
<1>10. \A i : List(W(Expert(i))) /\ Len(W(Expert(i))) = 3
  BY <1>3, NamesAreUses
<1>11. /\ List(W(FFN)) /\ Len(W(FFN)) = 3 /\ List(W(OutNorm)) /\ Len(W(OutNorm)) = 2
       /\ List(W(QKV)) /\ Len(W(QKV)) = 5
  BY <1>4, NamesAreUses
<1>12. List(W(QKV \o <<"attn_norm">>)) /\ Len(W(QKV \o <<"attn_norm">>)) = 6
  BY <1>5, NamesAreUses
<1>13. List(W(AttnFFN)) /\ Len(W(AttnFFN)) \in {5, 7}
  BY <1>6, NamesAreUses
<1>14. List(HeadWeights)
  BY <1>7, SequencesAreLists
<1>15. \A a : List(<<a>>) /\ Len(<<a>>) = 1
  BY <1>1, SequencesAreLists
<1>16. List(<<>>) /\ Len(<<>>) = 0
  BY <1>4, SequencesAreLists
<1> QED BY <1>7, <1>8, <1>9, <1>10, <1>11, <1>12, <1>13, <1>14, <1>15, <1>16

\* No call has more matrices than the cache protects.
Few(uses) == List(uses) /\ Len(uses) <= 7

\* None has more than seven.
LEMMA FewUses ==
  /\ \A a : Few(W(<<a>>)) /\ Few(<<a>>)
  /\ \A a, b : Few(W(<<a, b>>))
  /\ \A i : Few(W(Expert(i)))
  /\ Few(W(FFN)) /\ Few(W(OutNorm)) /\ Few(W(QKV)) /\ Few(W(QKV \o <<"attn_norm">>)) /\ Few(W(AttnFFN))
  /\ Few(HeadWeights) /\ Few(<<>>)
<1>1. ASSUME NEW u, List(u), Len(u) \in {0, 1, 2, 3, 5, 6, 7} PROVE Few(u)
  <2>1. \A n \in {0, 1, 2, 3, 5, 6, 7} : n <= 7
    OBVIOUS
  <2> QED BY <1>1, <2>1, Zenon DEF Few
<1>2. ASSUME NEW a PROVE Few(W(<<a>>)) /\ Few(<<a>>)
  <2>1. List(W(<<a>>)) /\ Len(W(<<a>>)) = 1 /\ List(<<a>>) /\ Len(<<a>>) = 1
    BY FewMatrices, Zenon
  <2> QED BY <1>1, <2>1
<1>3. ASSUME NEW a, NEW b PROVE Few(W(<<a, b>>))
  <2>1. List(W(<<a, b>>)) /\ Len(W(<<a, b>>)) = 2
    BY FewMatrices, Zenon
  <2> QED BY <1>1, <2>1
<1>4. ASSUME NEW i PROVE Few(W(Expert(i)))
  <2>1. List(W(Expert(i))) /\ Len(W(Expert(i))) = 3
    BY FewMatrices, Zenon
  <2> QED BY <1>1, <2>1
<1>5. Few(W(FFN)) /\ Few(W(OutNorm)) /\ Few(W(QKV))
  <2>1. /\ List(W(FFN)) /\ Len(W(FFN)) = 3 /\ List(W(OutNorm)) /\ Len(W(OutNorm)) = 2
        /\ List(W(QKV)) /\ Len(W(QKV)) = 5
    BY FewMatrices, Zenon
  <2> QED BY <1>1, <2>1
<1>6. Few(W(QKV \o <<"attn_norm">>))
  <2> DEFINE u == W(QKV \o <<"attn_norm">>)
  <2>1. List(u) /\ Len(u) = 6
    BY FewMatrices, Zenon
  <2> HIDE DEF u
  <2>2. Few(u)
    BY <1>1, <2>1
  <2> QED BY <2>2 DEF u
<1>7. Few(W(AttnFFN)) /\ Few(HeadWeights)
  <2>1. List(W(AttnFFN)) /\ Len(W(AttnFFN)) \in {5, 7} /\ List(HeadWeights) /\ Len(HeadWeights) = 2
    BY FewMatrices, Zenon
  <2> QED BY <1>1, <2>1
<1>8. Few(<<>>)
  <2>1. List(<<>>) /\ Len(<<>>) = 0
    BY FewMatrices, Zenon
  <2> QED BY <1>1, <2>1
<1> QED BY <1>2, <1>3, <1>4, <1>5, <1>6, <1>7, <1>8, Zenon

\* What the proofs need of a call.
Suits(c) ==
  /\ c.kind \in Kinds \cup {"gather"}
  /\ c.kind = "upload" <=> run.step \in {"upload", "hupload"}
  /\ c.kind = "upload" => c.uses = <<>>
  /\ c.kind = "download" => run.step \in {"recover", "sync", "release"}
  /\ c.kind = "attnffn" /\ c.buf # None => run.step = "hattnffn"
  /\ c.kind = "attnout" => c.buf = None
  /\ Few(c.uses)

\* A call with these arguments suits the step it belongs to.
LEMMA CallSuits ==
  ASSUME NEW kind \in Kinds \cup {"gather"}, NEW uses, NEW buf, Calls(kind, uses, buf), Few(uses),
         kind = "upload" <=> run.step \in {"upload", "hupload"},
         kind = "upload" => uses = <<>>,
         kind = "download" => run.step \in {"recover", "sync", "release"},
         kind = "attnffn" /\ buf # None => run.step = "hattnffn",
         kind = "attnout" => buf = None
  PROVE  Suits(CallOf(run.step))
<1>1. PICK want : CallOf(run.step) = Call(kind, uses, buf, want)
  BY DEF Calls
<1> QED BY <1>1 DEF Call, Suits

\* So does a product with one matrix.
LEMMA ProductSuits ==
  ASSUME NEW name, NEW buf, CallsProduct(name, buf), run.step \in Products
  PROVE  Suits(CallOf(run.step))
<1>1. PICK want : CallOf(run.step) = Product(name, buf, want)
  BY DEF CallsProduct
<1>2. Few(W(<<name>>))
  BY FewUses, Zenon
<1> HIDE DEF W
<1> QED BY <1>1, <1>2 DEF Product, Call, Suits, Kinds, Products

\* Every step of the model makes a call that suits it.
LEMMA StepSuits ==
  ASSUME run.step \in ResidentSteps \cup HostSteps
  PROVE  Suits(CallOf(run.step))
<1>1. CASE run.step \in Products
  BY <1>1, HostCalls, ProductSuits DEF Products
<1>2. CASE run.step = "gather"
  <2>1. Calls("gather", <<<<NumLayers, "token_embd">>>>, "x")
    BY <1>2, ResidentCalls, Zenon
  <2> QED BY <1>2, <2>1, FewUses, CallSuits DEF Kinds, None
<1>3. CASE run.step = "upload"
  <2>1. Calls("upload", <<>>, "x")
    BY <1>3, ResidentCalls, Zenon
  <2> QED BY <1>3, <2>1, FewUses, CallSuits DEF Kinds, None
<1>4. CASE run.step = "rqkv"
  <2>1. Calls("qkv", W(QKV \o <<"attn_norm">>), None)
    BY <1>4, ResidentCalls, Zenon
  <2> QED BY <1>4, <2>1, FewUses, CallSuits DEF Kinds, None
<1>5. CASE run.step = "rattnffn"
  <2>1. Calls("attnffn", W(AttnFFN), None)
    BY <1>5, ResidentCalls, Zenon
  <2> QED BY <1>5, <2>1, FewUses, CallSuits DEF Kinds, None
<1>6. CASE run.step = "rattnout"
  <2>1. Calls("attnout", W(OutNorm), None)
    BY <1>6, ResidentCalls, Zenon
  <2> QED BY <1>6, <2>1, FewUses, CallSuits DEF Kinds, None
<1>7. CASE run.step = "rrouter"
  <2>1. Calls("router", W(<<"router">>), None)
    BY <1>7, ResidentCalls, Zenon
  <2> QED BY <1>7, <2>1, FewUses, CallSuits DEF Kinds, None
<1>8. CASE run.step = "rexpert"
  <2>1. Calls("expert", W(Expert(1)), None)
    BY <1>8, ResidentCalls, Zenon
  <2> QED BY <1>8, <2>1, FewUses, CallSuits DEF Kinds, None
<1>9. CASE run.step = "rexpert2"
  <2>1. Calls("expert", W(Expert(2)), None)
    BY <1>9, ResidentCalls, Zenon
  <2> QED BY <1>9, <2>1, FewUses, CallSuits DEF Kinds, None
<1>10. CASE run.step = "rln"
  <2>1. Calls("lnresid", W(<<"attn_norm", "attn_bias">>), None)
    BY <1>10, ResidentCalls, Zenon
  <2> QED BY <1>10, <2>1, FewUses, CallSuits DEF Kinds, None
<1>11. CASE run.step = "radd"
  <2>1. Calls("residadd", <<>>, "out")
    BY <1>11, ResidentCalls, Zenon
  <2> QED BY <1>11, <2>1, FewUses, CallSuits DEF Kinds, None
<1>12. CASE run.step = "radd2"
  <2>1. Calls("residadd", <<>>, "out")
    BY <1>12, ResidentCalls, Zenon
  <2> QED BY <1>12, <2>1, FewUses, CallSuits DEF Kinds, None
<1>13. CASE run.step = "recover"
  <2>1. Calls("download", <<>>, "x")
    BY <1>13, ResidentCalls, Zenon
  <2> QED BY <1>13, <2>1, FewUses, CallSuits DEF Kinds, None
<1>14. CASE run.step = "rlogits"
  <2>1. Calls("logits", HeadWeights, None)
    BY <1>14, ResidentCalls, Zenon
  <2> QED BY <1>14, <2>1, FewUses, CallSuits DEF Kinds, None
<1>15. CASE run.step = "sync"
  <2>1. Calls("download", <<>>, "x")
    BY <1>15, ResidentCalls, Zenon
  <2> QED BY <1>15, <2>1, FewUses, CallSuits DEF Kinds, None
<1>16. CASE run.step = "hqkv"
  <2>1. Calls("qkv", W(QKV), "h")
    BY <1>16, HostCalls, Zenon
  <2> QED BY <1>16, <2>1, FewUses, CallSuits DEF Kinds, None
<1>17. CASE run.step = "append"
  <2>1. Calls("append", <<>>, None)
    BY <1>17, HostCalls, Zenon
  <2> QED BY <1>17, <2>1, FewUses, CallSuits DEF Kinds, None
<1>18. CASE run.step = "rebuild"
  <2>1. Calls("append", <<>>, None)
    BY <1>18, HostCalls, Zenon
  <2> QED BY <1>18, <2>1, FewUses, CallSuits DEF Kinds, None
<1>19. CASE run.step = "scores"
  <2> DEFINE uses == IF cfg.family = "mla" THEN W(<<"k_b", "v_b">>) ELSE <<>>
  <2>1. Calls("scores", uses, None) /\ Few(uses)
    BY <1>19, HostCalls, FewUses, Zenon
  <2> HIDE DEF uses
  <2> QED BY <1>19, <2>1, CallSuits DEF Kinds
<1>20. CASE run.step = "hattnffn"
  <2>1. Calls("attnffn", W(AttnFFN), "x")
    BY <1>20, HostCalls, Zenon
  <2> QED BY <1>20, <2>1, FewUses, CallSuits DEF Kinds, None
<1>21. CASE run.step = "ffn"
  <2>1. Calls("ffn", W(FFN), "h")
    BY <1>21, HostCalls, Zenon
  <2> QED BY <1>21, <2>1, FewUses, CallSuits DEF Kinds, None
<1>22. CASE run.step = "act"
  <2>1. Calls("act", <<>>, None)
    BY <1>22, HostCalls, Zenon
  <2> QED BY <1>22, <2>1, FewUses, CallSuits DEF Kinds, None
<1>23. CASE run.step = "expert"
  <2>1. Calls("ffn", W(Expert(1)), "h")
    BY <1>23, HostCalls, Zenon
  <2> QED BY <1>23, <2>1, FewUses, CallSuits DEF Kinds, None
<1>24. CASE run.step = "expert2"
  <2>1. Calls("ffn", W(Expert(2)), "h")
    BY <1>24, HostCalls, Zenon
  <2> QED BY <1>24, <2>1, FewUses, CallSuits DEF Kinds, None
<1>25. CASE run.step = "hupload"
  <2>1. Calls("upload", <<>>, "x")
    BY <1>25, HostCalls, Zenon
  <2> QED BY <1>25, <2>1, FewUses, CallSuits DEF Kinds, None
<1>26. CASE run.step = "hlogits"
  <2>1. Calls("logits", HeadWeights, None)
    BY <1>26, HostCalls, Zenon
  <2> QED BY <1>26, <2>1, FewUses, CallSuits DEF Kinds, None
<1>27. CASE run.step = "release"
  <2>1. Calls("download", <<>>, None)
    BY <1>27, HostCalls, Zenon
  <2> QED BY <1>27, <2>1, FewUses, CallSuits DEF Kinds, None
<1> QED
  BY <1>1, <1>2, <1>3, <1>4, <1>5, <1>6, <1>7, <1>8, <1>9, <1>10, <1>11, <1>12, <1>13, <1>14,
     <1>15, <1>16, <1>17, <1>18, <1>19, <1>20, <1>21, <1>22, <1>23, <1>24, <1>25, <1>26, <1>27
  DEF ResidentSteps, HostSteps, Products

-----------------------------------------------------------------------------
(* The operations preserve the invariant.                                    *)

\* A fault that costs something leaves a state that is not faultless.
LEMMA PaysCounts ==
  ASSUME IInv, NEW cost, Pays(cost), cfg' = cfg
  PROVE  /\ faults' \in Int /\ faults' <= cfg'.faults
         /\ Faultless' => Faultless /\ cost = None
BY SizesAssumption DEF IInv, CacheInv, Machine, HiddenInv, Pays, Faultless, ConfigsAssumption

\* The states of the devices after a step that changes one of them.
LEMMA OneDevice ==
  ASSUME IInv, NEW d \in Devices, NEW h, Device(h), Live(h), gpu' = [gpu EXCEPT ![d] = h], cfg' = cfg
  PROVE  /\ DOMAIN gpu' = Devices' /\ gpu' = [e \in Devices' |-> gpu'[e]]
         /\ \A e \in Devices' : Device(gpu'[e]) /\ Live(gpu'[e])
         /\ gpu'[d] = h /\ \A e \in Devices \ {d} : gpu'[e] = gpu[e]
BY DEF IInv, CacheInv, Machine, Devices

\* The call of a step, and what opening it makes of the operation.
LEMMA StepCalls ==
  ASSUME IInv, Calling
  PROVE  Suits(CallOf(run.step))
<1>1. run.step \in ResidentSteps \cup HostSteps
  BY DEF IInv, HiddenInv, Modes, GoodRun, Run, Steps, Calling
<1> QED BY <1>1, StepSuits

\* What an operation is when it opens.
LEMMA OpenedIs ==
  ASSUME NEW c, NEW where, NEW dev
  PROVE  LET o == Opened(c, where, dev)
         IN  /\ DOMAIN o = Ops /\ o = [f \in Ops |-> o[f]]
             /\ o.kind = c.kind /\ o.dev = dev /\ o.buf = c.buf /\ o.quant = cfg.quant
             /\ o.todo = c.uses /\ o.held = {} /\ o.rc = "open"
BY DEF Opened, Ops

\* An operation opens: it moves the hidden state, or refuses.
LEMMA IssueInv ==
  ASSUME IInv, Issue
  PROVE  IInv'
<1> DEFINE c == CallOf(run.step)
           where == Written(run.step)
<1>1. PICK a \in Reach([kind |-> c.kind, layer |-> where.layer]) :
        LET o == Opened(c, where, a.multi.cur)
            g == a.gpu[o.dev]
        IN  /\ Pays(a.cost)
            /\ multi' = a.multi
            /\ \/ /\ a.rc = "ok" /\ ~Refuses(g, o)
                  /\ op' = o
                  /\ gpu' = [a.gpu EXCEPT ![o.dev] = Entered(g, o)]
               \/ /\ a.rc # "ok" \/ Refuses(g, o)
                  /\ op' = [o EXCEPT !.rc = "failed"]
                  /\ gpu' = a.gpu
  BY DEF Issue
<1> DEFINE o == Opened(c, where, a.multi.cur)
           g == a.gpu[o.dev]
<1>2. op = NoOp /\ Calling /\ cfg' = cfg /\ run' = run
  BY DEF Issue
<1>3. Suits(c)
  BY <1>2, StepCalls
<1>4. /\ DOMAIN o = Ops /\ o = [f \in Ops |-> o[f]]
      /\ o.kind = c.kind /\ o.dev = a.multi.cur /\ o.buf = c.buf /\ o.quant = cfg.quant
      /\ o.todo = c.uses /\ o.held = {} /\ o.rc = "open"
  BY OpenedIs
<1>5. /\ Split(a.multi) /\ Unmoved(a.gpu) /\ OnlyAt(a.gpu, a.multi.cur)
      /\ c.kind # "upload" /\ gpu[multi.cur].active /\ a.cost = None => a.gpu[a.multi.cur].active
      /\ c.kind = "upload" => a.rc = "ok" /\ a.cost = None
  BY ReachMoves DEF Moved, IInv, CacheInv, HiddenInv
<1>6. faults' \in Int /\ faults' <= cfg'.faults /\ (Faultless' => Faultless /\ a.cost = None)
  BY <1>1, <1>2, PaysCounts
<1> HIDE DEF o, c, where
<1>7. a.multi.cur \in Devices /\ Same(gpu[a.multi.cur], g)
  BY <1>4, <1>5 DEF Unmoved, Split
<1>8. /\ Same(gpu[a.multi.cur], Entered(g, o)) /\ (Entered(g, o).active => g.active)
      /\ g.active /\ run.step # "hattnffn" => Entered(g, o).active
  <2>1. Same(gpu[a.multi.cur], clearResidencyLocked(g)) /\ ~clearResidencyLocked(g).active
    BY <1>7, SameCleared
  <2> QED BY <1>3, <1>4, <1>7, <2>1 DEF Entered, Suits
<1>9. op' \in {o, [o EXCEPT !.rc = "failed"]} /\ gpu' \in {a.gpu, [a.gpu EXCEPT ![a.multi.cur] = Entered(g, o)]}
      /\ (op'.rc = "open" => ~Refuses(g, o)) /\ multi' = a.multi
  BY <1>1, <1>4 DEF Ops, o, c, where
<1>10. /\ DOMAIN op' = Ops /\ op' = [f \in Ops |-> op'[f]] /\ op'.kind = c.kind /\ op'.dev = a.multi.cur
       /\ op'.buf = c.buf /\ op'.quant = cfg.quant /\ op'.todo = c.uses /\ op'.held = {}
  BY <1>4, <1>9 DEF Ops
<1>11. /\ Unmoved(gpu') /\ OnlyAt(gpu', a.multi.cur)
       /\ a.gpu[a.multi.cur].active /\ run.step # "hattnffn" => gpu'[a.multi.cur].active
  <2>1. CASE gpu' = a.gpu
    BY <1>5, <2>1
  <2>2. CASE gpu' = [a.gpu EXCEPT ![a.multi.cur] = Entered(g, o)]
    <3> DEFINE cur == a.multi.cur
               devices == a.gpu
               h == Entered(g, o)
    <3>1. /\ Unmoved(devices) /\ OnlyAt(devices, cur) /\ cur \in Devices /\ Same(gpu[cur], h)
          /\ devices[cur].active /\ run.step # "hattnffn" => h.active
          /\ gpu' = [devices EXCEPT ![cur] = h]
      BY <1>4, <1>5, <1>7, <1>8, <2>2
    <3> HIDE DEF cur, devices, h
    <3>2. Unmoved(gpu') /\ OnlyAt(gpu', cur) /\ (devices[cur].active /\ run.step # "hattnffn" => gpu'[cur].active)
      BY <3>1 DEF Unmoved, OnlyAt
    <3> QED BY <3>2 DEF cur, devices
  <2> QED BY <1>9, <2>1, <2>2
<1>12. Devices' = Devices
  BY <1>2 DEF Devices
<1>13. Machine'
  BY <1>2, <1>5, <1>9, <1>10, <1>11, <1>12 DEF Machine, Split, Unmoved, Same, IInv, CacheInv
<1>14. Protected'
  <2>1. List(op'.todo) /\ Len(op'.todo) <= 7 /\ op'.held = {}
    BY <1>3, <1>10 DEF Suits, Few
  <2>2. Len(op'.todo) <= weightProtect
    BY <2>1, SizesAssumption, ProtectAssumption DEF List
  <2> QED BY <2>1, <2>2 DEF Protected, Among
<1>15. \A d \in Devices' : Live(gpu'[d])
  BY <1>11, <1>12 DEF Unmoved, Same, Live, IInv, CacheInv
<1>16. Modes'
  BY <1>2 DEF Modes, GoodRun, IInv, HiddenInv
<1>17. OfStep'
  <2>1. op'.rc = "open" => ~Refuses(g, o)
    BY <1>9
  <2>2. /\ op'.rc = "open" => c.kind # "gather"
        /\ op'.rc = "open" /\ c.kind = "attnffn" /\ c.buf = None => cfg.quant
    BY <1>4, <2>1 DEF Refuses, EmbedGatherRefuses, Q8_0Block
  <2>3. Calling'
    BY <1>2 DEF Calling
  <2> QED BY <1>2, <1>3, <1>10, <2>2, <2>3 DEF OfStep, Suits
<1>18. ActiveHere'
  BY <1>9, <1>11, <1>12 DEF ActiveHere, OnlyAt
<1>19. Counted'
  <2>0. op' = NoOp => c.kind \notin {"upload", "download"}
    BY <1>10 DEF NoOp, None
  <2>1. SUFFICES ASSUME Faultless', run.resident \/ run.step = "hlogits", c.kind \notin {"upload", "download"}
                 PROVE  gpu'[a.multi.cur].active
    BY <1>2, <1>9, <1>10, <2>0 DEF Counted
  <2>2. gpu[multi.cur].active /\ a.cost = None
    BY <1>2, <1>6, <2>1 DEF IInv, HiddenInv, Counted
  <2>3. run.step # "hattnffn"
    BY <2>1 DEF IInv, HiddenInv, Modes, GoodRun, ResidentSteps, Phi2Steps
  <2> QED BY <1>5, <1>11, <2>1, <2>2, <2>3
<1>20. Uploads'
  <2>1. c.kind = "upload" => op'.rc = "open"
    <3>1. c.kind = "upload" => ~Refuses(g, o)
      BY <1>4 DEF Refuses
    <3> QED BY <1>1, <1>4, <1>5, <3>1 DEF o, c, where
  <2> QED BY <1>10, <2>1 DEF Uploads
<1> QED BY <1>6, <1>13, <1>14, <1>15, <1>16, <1>17, <1>18, <1>19, <1>20
           DEF IInv, CacheInv, HiddenInv

\* It uploads a matrix: what it holds stays, and it has one fewer to come.
LEMMA UploadInv ==
  ASSUME IInv, Upload
  PROVE  IInv'
<1> DEFINE d == op.dev
           m == Head(op.todo)
<1>1. PICK e \in Ensure(gpu[d], m, cfg.vram) :
        /\ Pays(e.cost) /\ gpu' = [gpu EXCEPT ![d] = e.gpu]
        /\ op' = IF e.rc = "ok" THEN [op EXCEPT !.todo = Tail(@), !.held = @ \cup {m}]
                 ELSE [op EXCEPT !.rc = e.rc]
  BY DEF Upload
<1>2. op # NoOp /\ op.rc = "open" /\ op.todo # <<>> /\ cfg' = cfg /\ run' = run /\ multi' = multi
  BY DEF Upload
<1>3. /\ d = multi.cur /\ d \in Devices /\ Device(gpu[d]) /\ Live(gpu[d])
      /\ List(op.todo) /\ Len(op.todo) <= weightProtect
      /\ Among(gpu[d].lru, op.held, weightProtect - Len(op.todo))
  BY <1>2 DEF IInv, CacheInv, Machine, Protected, Split
<1>4. /\ Device(e.gpu) /\ Live(e.gpu) /\ SameHidden(gpu[d], e.gpu) /\ e.rc \in {"ok", "failed"}
      /\ e.rc = "ok" => \A held, k : k \in Nat /\ k < weightProtect /\ Among(gpu[d].lru, held, k) =>
           Among(e.gpu.lru, held \cup {m}, k + 1)
  BY <1>3, EnsureKeeps
<1>5. faults' \in Int /\ faults' <= cfg'.faults /\ (Faultless' => Faultless /\ e.cost = None)
  BY <1>1, <1>2, PaysCounts
<1> HIDE DEF d, m
<1>6. /\ DOMAIN gpu' = Devices' /\ gpu' = [x \in Devices' |-> gpu'[x]]
      /\ \A x \in Devices' : Device(gpu'[x]) /\ Live(gpu'[x])
      /\ gpu'[d] = e.gpu /\ \A x \in Devices \ {d} : gpu'[x] = gpu[x]
  BY <1>1, <1>2, <1>3, <1>4, OneDevice
<1>7. /\ DOMAIN op = Ops /\ op = [f \in Ops |-> op[f]] /\ op.quant = cfg.quant
  BY <1>2 DEF IInv, CacheInv, Machine
<1>8. /\ DOMAIN op' = Ops /\ op' = [f \in Ops |-> op'[f]] /\ op'.kind = op.kind /\ op'.dev = d
      /\ op'.buf = op.buf /\ op'.quant = cfg.quant
      /\ op'.rc = "open" => /\ e.rc = "ok" /\ op'.todo = Tail(op.todo) /\ op'.held = op.held \cup {m}
  <2>1. CASE e.rc = "ok"
    BY <1>1, <1>7, <2>1 DEF Ops, d
  <2>2. CASE e.rc # "ok"
    BY <1>1, <1>4, <1>7, <2>2 DEF Ops, d
  <2> QED BY <2>1, <2>2
<1>9. Devices' = Devices
  BY <1>2 DEF Devices
<1>10. Machine'
  BY <1>2, <1>3, <1>6, <1>8, <1>9 DEF IInv, CacheInv, Machine, Split
<1>11. Protected'
  <2>1. SUFFICES ASSUME op'.rc = "open"
                 PROVE  /\ List(Tail(op.todo)) /\ Len(Tail(op.todo)) <= weightProtect
                        /\ Among(e.gpu.lru, op.held \cup {m}, weightProtect - Len(Tail(op.todo)))
    BY <1>6, <1>8 DEF Protected
  <2> DEFINE todo == op.todo
             rest == Tail(op.todo)
  <2>2. todo \in Seq(OnDevice(todo)) /\ todo # <<>>
    BY <1>2, <1>3 DEF List
  <2>3. rest \in Seq(OnDevice(todo)) /\ Len(rest) = Len(todo) - 1 /\ Len(todo) \in Nat /\ Len(todo) > 0
    <3> HIDE DEF todo
    <3>1. Tail(todo) \in Seq(OnDevice(todo)) /\ Len(Tail(todo)) = Len(todo) - 1 /\ Len(todo) \in Nat /\ Len(todo) > 0
      BY <2>2
    <3> QED BY <3>1 DEF todo
  <2>4. List(rest)
    BY <2>3, SequencesAreLists
  <2> DEFINE k == weightProtect - Len(todo)
  <2>5. Len(todo) <= weightProtect /\ Among(gpu[d].lru, op.held, k)
    BY <1>3
  <2> HIDE DEF todo, rest
  <2>6. k \in Nat /\ k < weightProtect /\ k + 1 = weightProtect - Len(rest) /\ Len(rest) <= weightProtect
    BY <2>3, <2>5, ProtectAssumption
  <2> HIDE DEF k
  <2>7. Among(e.gpu.lru, op.held \cup {m}, k + 1)
    BY <1>4, <1>8, <2>1, <2>5, <2>6
  <2> QED BY <2>4, <2>6, <2>7 DEF rest
<1>12. Modes'
  BY <1>2 DEF Modes, GoodRun, IInv, HiddenInv
<1>13. op.kind # "upload"
  BY <1>2 DEF IInv, HiddenInv, OfStep
<1>14. OfStep'
  <2>1. Calling'
    BY <1>2 DEF Calling, IInv, HiddenInv, OfStep
  <2> QED BY <1>2, <1>7, <1>8, <1>13, <2>1 DEF OfStep, IInv, HiddenInv
<1>15. \A x \in Devices : gpu'[x].active = gpu[x].active
  BY <1>4, <1>6 DEF SameHidden
<1>16. ActiveHere'
  BY <1>2, <1>9, <1>15 DEF ActiveHere, OnlyAt, IInv, HiddenInv
<1>17. Counted'
  BY <1>2, <1>3, <1>5, <1>8, <1>15 DEF Counted, IInv, HiddenInv, NoOp, None
<1>18. Uploads'
  BY <1>8, <1>13 DEF Uploads
<1> QED BY <1>5, <1>6, <1>10, <1>11, <1>12, <1>14, <1>16, <1>17, <1>18 DEF IInv, CacheInv, HiddenInv

\* It launches its kernels.
LEMMA LaunchInv ==
  ASSUME IInv, Launch
  PROVE  IInv'
<1> DEFINE d == op.dev
<1>1. PICK l \in Launches(gpu[d], op) :
        /\ Pays(l.cost) /\ gpu' = [gpu EXCEPT ![d] = l.gpu]
        /\ op' = [op EXCEPT !.rc = l.rc, !.read = l.read]
  BY DEF Launch
<1>2. op # NoOp /\ op.rc = "open" /\ op.todo = <<>> /\ cfg' = cfg /\ run' = run /\ multi' = multi
  BY DEF Launch
<1>3. /\ d = multi.cur /\ d \in Devices /\ Device(gpu[d]) /\ Live(gpu[d])
      /\ List(op.todo) /\ Len(op.todo) <= weightProtect
      /\ Among(gpu[d].lru, op.held, weightProtect - Len(op.todo))
  BY <1>2 DEF IInv, CacheInv, Machine, Protected, Split
<1>4. /\ DOMAIN op = Ops /\ op = [f \in Ops |-> op[f]] /\ op.quant = cfg.quant /\ op.quant \in BOOLEAN
  BY <1>2, SizesAssumption DEF IInv, CacheInv, Machine, ConfigsAssumption
<1>5. op.kind \in Kinds
  BY <1>2 DEF IInv, HiddenInv, OfStep
<1>6. Outcome(gpu[d], op, l)
  BY <1>3, <1>4, <1>5, LaunchOutcome
<1>7. faults' \in Int /\ faults' <= cfg'.faults /\ (Faultless' => Faultless /\ l.cost = None)
  BY <1>1, <1>2, PaysCounts
<1>8. op.held \subseteq OnDevice(gpu[d].lru)
  BY <1>3 DEF Among, OnDevice
<1>9. Device(l.gpu) /\ l.gpu.lru = gpu[d].lru /\ Live(l.gpu)
  <2>1. Device(l.gpu) /\ l.gpu.lru = gpu[d].lru /\ l.gpu.graphs \subseteq gpu[d].graphs \cup {op.held}
    BY <1>6 DEF Outcome
  <2> QED BY <1>3, <1>8, <2>1 DEF Live
<1> HIDE DEF d
<1>10. /\ DOMAIN gpu' = Devices' /\ gpu' = [x \in Devices' |-> gpu'[x]]
       /\ \A x \in Devices' : Device(gpu'[x]) /\ Live(gpu'[x])
       /\ gpu'[d] = l.gpu /\ \A x \in Devices \ {d} : gpu'[x] = gpu[x]
  BY <1>1, <1>2, <1>3, <1>9, OneDevice
<1>11. /\ DOMAIN op' = Ops /\ op' = [f \in Ops |-> op'[f]] /\ op'.kind = op.kind /\ op'.dev = d
       /\ op'.buf = op.buf /\ op'.quant = cfg.quant /\ op'.todo = op.todo /\ op'.held = op.held /\ op'.rc = l.rc
  BY <1>1, <1>4 DEF Ops, d
<1>12. Devices' = Devices
  BY <1>2 DEF Devices
<1>13. Machine'
  BY <1>2, <1>3, <1>10, <1>11, <1>12 DEF IInv, CacheInv, Machine, Split
<1>14. Protected'
  BY <1>3, <1>9, <1>10, <1>11 DEF Protected
<1>15. Modes'
  BY <1>2 DEF Modes, GoodRun, IInv, HiddenInv
<1>16. OfStep'
  <2>1. Calling'
    BY <1>2 DEF Calling, IInv, HiddenInv, OfStep
  <2> QED BY <1>2, <1>4, <1>5, <1>11, <2>1 DEF OfStep, IInv, HiddenInv
<1>17. ActiveHere'
  BY <1>2, <1>3, <1>10, <1>12 DEF ActiveHere, OnlyAt, IInv, HiddenInv
<1>18. Counted'
  <2>0. op' = NoOp => op.kind \notin {"upload", "download"}
    BY <1>11 DEF NoOp, None
  <2>1. SUFFICES ASSUME Faultless', run.resident \/ run.step = "hlogits", op.kind \notin {"upload", "download"}
                 PROVE  l.gpu.active
    BY <1>2, <1>3, <1>10, <1>11, <2>0 DEF Counted
  <2>2. gpu[d].active /\ l.cost = None
    BY <1>3, <1>7, <2>1 DEF IInv, HiddenInv, Counted
  <2>3. run.step # "hattnffn"
    BY <2>1 DEF IInv, HiddenInv, Modes, GoodRun, ResidentSteps, Phi2Steps
  <2>4. op.kind = "attnffn" => op.quant
    BY <1>2, <2>3 DEF IInv, HiddenInv, OfStep
  <2> QED BY <1>6, <2>1, <2>2, <2>4 DEF Outcome
<1>19. Uploads'
  BY <1>2, <1>3, <1>6, <1>7, <1>10, <1>11 DEF Uploads, Outcome
<1> QED BY <1>7, <1>10, <1>13, <1>14, <1>15, <1>16, <1>17, <1>18, <1>19
           DEF IInv, CacheInv, HiddenInv

\* The other goroutine evicts between two operations: nothing is held then.
LEMMA EvictInv ==
  ASSUME IInv, Evict
  PROVE  IInv'
<1>1. PICK d \in Devices : \E g \in {EvictMatricesWithPrefix(gpu[d], l) : l \in 0..NumLayers-1}
                \cup {EvictQuantMatrix(gpu[d], m) : m \in OnDevice(gpu[d].lru)}
                \cup {SetWeightCacheLimits(gpu[d], [gpu[d].caps EXCEPT !.entries = 1])} :
         gpu' = [gpu EXCEPT ![d] = g]
  BY DEF Evict
<1>2. op = NoOp /\ op' = op /\ cfg' = cfg /\ run' = run /\ multi' = multi /\ faults' = faults
  BY DEF Evict
<1>3. Device(gpu[d]) /\ Live(gpu[d])
  BY DEF IInv, CacheInv, Machine
<1>4. PICK h : gpu' = [gpu EXCEPT ![d] = h] /\ Device(h) /\ Live(h) /\ SameHidden(gpu[d], h)
  <2>1. PICK g \in {EvictMatricesWithPrefix(gpu[d], l) : l \in 0..NumLayers-1}
               \cup {EvictQuantMatrix(gpu[d], m) : m \in OnDevice(gpu[d].lru)}
               \cup {SetWeightCacheLimits(gpu[d], [gpu[d].caps EXCEPT !.entries = 1])} :
          gpu' = [gpu EXCEPT ![d] = g]
    BY <1>1
  <2>2. CASE g \in {EvictMatricesWithPrefix(gpu[d], l) : l \in 0..NumLayers-1}
    <3>1. PICK l \in 0..NumLayers-1 : g = EvictMatricesWithPrefix(gpu[d], l)
      BY <2>2
    <3> QED BY <1>3, <2>1, <3>1, EvictKeeps
  <2>3. CASE g \in {EvictQuantMatrix(gpu[d], m) : m \in OnDevice(gpu[d].lru)}
    <3>1. PICK m \in OnDevice(gpu[d].lru) : g = EvictQuantMatrix(gpu[d], m)
      BY <2>3
    <3> QED BY <1>3, <2>1, <3>1, EvictKeeps
  <2>4. CASE g \in {SetWeightCacheLimits(gpu[d], [gpu[d].caps EXCEPT !.entries = 1])}
    <3>1. g = SetWeightCacheLimits(gpu[d], [gpu[d].caps EXCEPT !.entries = 1])
      BY <2>4
    <3> QED BY <1>3, <2>1, <3>1, EvictKeeps
  <2> QED BY <2>1, <2>2, <2>3, <2>4
<1>5. /\ DOMAIN gpu' = Devices' /\ gpu' = [x \in Devices' |-> gpu'[x]]
      /\ \A x \in Devices' : Device(gpu'[x]) /\ Live(gpu'[x])
      /\ gpu'[d] = h /\ \A x \in Devices \ {d} : gpu'[x] = gpu[x]
  BY <1>2, <1>4, OneDevice
<1>6. Devices' = Devices /\ \A x \in Devices : gpu'[x].active = gpu[x].active
  BY <1>2, <1>4, <1>5 DEF Devices, SameHidden
<1>7. multi.cur \in Devices
  BY DEF IInv, CacheInv, Machine, Split
<1>8. Machine'
  BY <1>2, <1>5, <1>6 DEF IInv, CacheInv, Machine, Split
<1>9. Protected' /\ OfStep' /\ Uploads'
  BY <1>2 DEF Protected, OfStep, Uploads
<1>10. Modes' /\ ActiveHere' /\ Counted'
  BY <1>2, <1>6, <1>7 DEF Modes, GoodRun, ActiveHere, OnlyAt, Counted, Faultless, IInv, HiddenInv
<1> QED BY <1>2, <1>5, <1>8, <1>9, <1>10 DEF IInv, CacheInv, HiddenInv

-----------------------------------------------------------------------------
(* What follows a call: the mode of the token is kept.                       *)

Families == {"dense", "moe", "phi2", "mla"}

\* The next step counts on the hidden state only where this one left it.
Counts(r) == r.resident \/ r.step = "hlogits"
Carried(r, s) ==
  Counts(s) =>
    \/ Counts(r) /\ r.step \notin {"recover", "sync", "release"}
    \/ r.step \in {"upload", "hupload"}

\* The families of models.
LEMMA FamilyIs == ASSUME cfg \in Configs PROVE cfg.family \in Families
BY SizesAssumption DEF ConfigsAssumption, Families

\* Where a layer, or what follows the last one, begins.
LEMMA LogitsFromIs ==
  ASSUME NEW resident \in BOOLEAN, resident => run.n = 1
  PROVE  /\ LogitsFrom(resident) \in {"rlogits", "sync", "hupload", "idle"}
         /\ resident <=> LogitsFrom(resident) \in {"rlogits", "sync"}
<1>1. CASE run.n # 1
  BY <1>1, Zenon DEF LogitsFrom, Single
<1>2. CASE run.n = 1 /\ resident
  BY <1>2, Zenon DEF LogitsFrom, Single
<1>3. CASE run.n = 1 /\ ~resident
  BY <1>3, Zenon DEF LogitsFrom, Single
<1> QED BY <1>1, <1>2, <1>3

\* A layer that begins on the host begins with a projection, or is not offloaded.
LEMMA HostLayerIs ==
  ASSUME NEW layer, NEW stale
  PROVE  HostLayer(layer, stale) \in {"cpu", "hqkv", "q"}
<1>1. CASE ~LayerOnGPU(layer)
  BY <1>1, Zenon DEF HostLayer
<1>2. CASE LayerOnGPU(layer) /\ cfg.fusedQKV /\ ~stale /\ Single
  BY <1>2, Zenon DEF HostLayer
<1>3. CASE LayerOnGPU(layer) /\ ~(LayerOnGPU(layer) /\ cfg.fusedQKV /\ ~stale /\ Single)
  BY <1>3, Zenon DEF HostLayer
<1> QED BY <1>1, <1>2, <1>3

\* Where the next layer begins, or what follows the last one, in each mode.
LEMMA LayerFromIs ==
  ASSUME NEW layer \in 0..NumLayers, NEW resident \in BOOLEAN, resident => run.n = 1
  PROVE  LET s == LayerFrom(layer, resident)
         IN  /\ layer = NumLayers => s \in {"rlogits", "sync", "hupload", "idle"}
             /\ layer < NumLayers => s \in {"rln", "rqkv", "cpu", "hqkv", "q"}
             /\ resident <=> s \in {"rlogits", "sync", "rln", "rqkv"}
             /\ s = "rln" => cfg.family = "phi2"
             /\ s = "rqkv" => cfg.family # "phi2"
<1>0. layer \in Nat /\ NumLayers \in Nat
  BY SizesAssumption
<1>1. CASE layer = NumLayers
  <2>1. LayerFrom(layer, resident) = LogitsFrom(resident)
    <3>1. ~(layer < NumLayers)
      BY <1>0, <1>1
    <3> QED BY <1>1, <3>1, Zenon DEF LayerFrom
  <2> QED BY <1>0, <1>1, <2>1, LogitsFromIs
<1>2. CASE layer < NumLayers /\ resident /\ Single
  <2>1. \/ LayerFrom(layer, resident) = "rln" /\ cfg.family = "phi2"
        \/ LayerFrom(layer, resident) = "rqkv" /\ cfg.family # "phi2"
    <3>1. layer # NumLayers
      BY <1>0, <1>2
    <3> QED BY <1>2, <3>1, Zenon DEF LayerFrom
  <2>2. layer # NumLayers
    BY <1>0, <1>2
  <2> QED BY <1>2, <2>1, <2>2
<1>3. CASE layer < NumLayers /\ ~(resident /\ Single)
  <2>1. LayerFrom(layer, resident) = HostLayer(layer, model.stale)
    <3>1. layer # NumLayers
      BY <1>0, <1>3
    <3> QED BY <1>3, <3>1, Zenon DEF LayerFrom
  <2>2. ~resident
    BY <1>3 DEF Single
  <2>3. LayerFrom(layer, resident) \in {"cpu", "hqkv", "q"}
    BY <2>1, HostLayerIs, Zenon
  <2>4. layer # NumLayers
    BY <1>0, <1>3
  <2> QED BY <2>2, <2>3, <2>4
<1> QED BY <1>0, <1>1, <1>2, <1>3

\* A token that begins a layer is in one of its modes.
LEMMA LayerIsGood ==
  ASSUME NEW r \in Run, r.n = run.n, r.resident => r.n = 1,
         NEW layer \in 0..NumLayers, layer < NumLayers => r.layer < NumLayers,
         r.step = LayerFrom(layer, r.resident)
  PROVE  GoodRun(r) /\ r.step # "hlogits"
<1> DEFINE s == LayerFrom(layer, r.resident)
<1>0. layer \in Nat /\ NumLayers \in Nat /\ r.resident \in BOOLEAN
  BY SizesAssumption DEF Run
<1>1. /\ layer = NumLayers => s \in {"rlogits", "sync", "hupload", "idle"}
      /\ layer < NumLayers => s \in {"rln", "rqkv", "cpu", "hqkv", "q"}
      /\ r.resident => s \in {"rlogits", "sync", "rln", "rqkv"}
      /\ s = "rlogits" => r.resident
      /\ s = "rln" => cfg.family = "phi2"
  BY <1>0, LayerFromIs
<1>2. layer = NumLayers \/ layer < NumLayers
  BY <1>0
<1> HIDE DEF s
<1>3. r.step = s
  BY DEF s
<1> QED BY <1>1, <1>2, <1>3 DEF GoodRun, OfLayer, Steps, ResidentSteps, HostSteps

\* What follows the calls of a layer.
LEMMA AfterScoresIs ==
  /\ AfterScores \in {"hattnffn", "wo"} /\ (cfg.family = "phi2" => AfterScores = "wo")
  /\ AfterQKV \in {"hattnffn", "wo", "append"} /\ (cfg.family = "phi2" => AfterQKV \in {"wo", "append"})
BY DEF AfterScores, AfterQKV

\* What follows the projection of the attention.
LEMMA AfterWOIs ==
  ASSUME cfg.family \in Families, run.resident => cfg.family = "phi2"
  PROVE  IF run.resident /\ run.n = 1 THEN AfterWO = "radd" ELSE AfterWO \in {"up", "router", "ffn", "gate"}
<1>1. CASE Resident1
  <2>1. cfg.family = "phi2"
    BY <1>1 DEF Resident1
  <2>2. cfg.family # "moe" /\ cfg.family \notin {"dense", "mla"}
    BY <2>1
  <2> QED BY <1>1, <2>1, <2>2, Zenon DEF AfterWO, Resident1, Single
<1>2. CASE ~Resident1 /\ cfg.family = "phi2"
  <2>1. cfg.family # "moe" /\ cfg.family \notin {"dense", "mla"}
    BY <1>2
  <2> QED BY <1>2, <2>1, Zenon DEF AfterWO, Resident1, Single
<1>3. CASE ~Resident1 /\ cfg.family = "moe"
  <2>1. cfg.family # "phi2" /\ cfg.family \notin {"dense", "mla"}
    BY <1>3
  <2> QED BY <1>3, <2>1, Zenon DEF AfterWO, Resident1, Single
<1>4. CASE ~Resident1 /\ cfg.family \in {"dense", "mla"}
  <2>1. cfg.family # "phi2" /\ cfg.family # "moe"
    BY <1>4
  <2> QED BY <1>4, <2>1, Zenon DEF AfterWO, Resident1, Single
<1>5. Resident1 <=> run.resident /\ run.n = 1
  BY DEF Resident1, Single
<1> QED BY <1>1, <1>2, <1>3, <1>4, <1>5 DEF Families

\* A step of the same layer that fits the mode.
LEMMA StepIsGood ==
  ASSUME GoodRun(run), NEW s \in Steps, NEW r \in Run,
         r.step = s, r.layer = run.layer, r.n = run.n, r.resident = run.resident,
         run.step \in OfLayer, s \notin {"gather", "upload", "rlogits"},
         s \in {"rln", "radd"} => cfg.family = "phi2",
         run.resident =>
           \/ s \in (ResidentSteps \ {"recover"}) \cup {"rebuild", "failed"}
           \/ cfg.family = "phi2" /\ s \in Phi2Steps
  PROVE  GoodRun(r)
BY DEF GoodRun, OfLayer, Run

\* The steps that Chain leads to, where a token without its hidden state on
\* the host may be as well as the others.
LEMMA ChainIs ==
  ASSUME NEW s \in DOMAIN Chain
  PROVE  /\ s \in Steps \ {"idle", "failed", "cpu"}
         /\ Chain[s] \in {"idle", "hlogits"} <=> s \in {"release", "hupload"}
         /\ Chain[s] = "hlogits" => s = "hupload"
         /\ Chain[s] \in Steps \ {"gather", "upload", "rlogits", "rln", "radd"}
         /\ s \in {"rattnout", "rrouter", "rexpert"} => Chain[s] \in ResidentSteps \ {"recover"}
         /\ s \in Phi2Steps \cup {"rln", "radd"} => Chain[s] \in Phi2Steps
         /\ s \in {"gate", "expert", "hupload", "release"} \/ s \in Phi2Steps \cup {"rln", "radd"}
              \/ s \in {"rattnout", "rrouter", "rexpert"}
<1>1. s \in {"rattnout", "rrouter", "rexpert", "rln", "q", "append", "radd", "gate", "up", "act",
             "expert", "hupload", "release"}
  BY DEF Chain
<1>2. CASE s \in {"rattnout", "rrouter", "rexpert"}
  BY <1>2 DEF Chain, Steps, ResidentSteps, HostSteps, Phi2Steps
<1>3. CASE s \in {"gate", "expert", "hupload", "release"}
  BY <1>3 DEF Chain, Steps, ResidentSteps, HostSteps, Phi2Steps
<1>4. CASE s \in {"rln", "q", "append", "radd", "up", "act"}
  BY <1>4 DEF Chain, Steps, ResidentSteps, HostSteps, Phi2Steps
<1> QED BY <1>1, <1>2, <1>3, <1>4

\* A resident token is in a fused call, in one of phi2, or writes the KV again.
LEMMA ResidentIs ==
  ASSUME GoodRun(run), run.resident, Calling
  PROVE  /\ run.n = 1
         /\ \/ run.step \in (ResidentSteps \ {"recover"}) \cup {"rebuild"}
            \/ cfg.family = "phi2" /\ run.step \in Phi2Steps
BY DEF GoodRun, Calling

\* The next layer.
LEMMA NextLayerGood ==
  ASSUME GoodRun(run), run.step \in OfLayer,
         run' = [run EXCEPT !.layer = @ + 1, !.step = LayerFrom(run.layer + 1, run.resident)]
  PROVE  GoodRun(run') /\ run'.step # "hlogits" /\ run'.resident = run.resident
<1>1. run \in Run /\ run.layer \in Nat /\ NumLayers \in Nat /\ run.layer < NumLayers /\ run.resident \in BOOLEAN
  BY SizesAssumption DEF GoodRun, Run
<1>2. run.resident => run.n = 1
  BY DEF GoodRun, OfLayer
<1>3. run.layer + 1 \in 0..NumLayers
  BY <1>1
<1> DEFINE s == LayerFrom(run.layer + 1, run.resident)
<1>4. s \in Steps
  BY <1>1, <1>2, <1>3, LayerFromIs DEF Steps, ResidentSteps, HostSteps
<1> HIDE DEF s
<1>5. run' \in Run /\ run'.n = run.n /\ run'.resident = run.resident /\ run'.layer = run.layer + 1 /\ run'.step = s
  BY <1>1, <1>3, <1>4 DEF Run, s
<1>6. run'.step = LayerFrom(run.layer + 1, run'.resident)
  BY <1>5 DEF s
<1>7. \A r \in Run : r.n = run.n /\ (r.resident => r.n = 1) /\ r.layer = run.layer + 1
                     /\ r.step = LayerFrom(run.layer + 1, r.resident) => GoodRun(r) /\ r.step # "hlogits"
  BY <1>3, LayerIsGood
<1> HIDE DEF GoodRun
<1>8. GoodRun(run') /\ run'.step # "hlogits"
  BY <1>2, <1>5, <1>6, <1>7
<1> QED BY <1>5, <1>8

\* A step of the same layer.
LEMMA SameLayer ==
  ASSUME GoodRun(run), NEW s \in Steps, run' = [run EXCEPT !.step = s],
         run.step \in OfLayer, s \notin {"gather", "upload", "rlogits", "hlogits"},
         s \in {"rln", "radd"} => cfg.family = "phi2",
         run.resident =>
           \/ s \in (ResidentSteps \ {"recover"}) \cup {"rebuild", "failed"}
           \/ cfg.family = "phi2" /\ s \in Phi2Steps
  PROVE  GoodRun(run') /\ run'.step # "hlogits" /\ run'.resident = run.resident
<1>1. run \in Run
  BY DEF GoodRun
<1>2. /\ run' \in Run /\ run'.step = s /\ run'.layer = run.layer /\ run'.n = run.n
      /\ run'.resident = run.resident
  BY <1>1 DEF Run
<1>3. \A r \in Run : r.step = s /\ r.layer = run.layer /\ r.n = run.n /\ r.resident = run.resident => GoodRun(r)
  BY StepIsGood
<1> QED BY <1>2, <1>3

\* A token that is not resident any more, and a step of the same layer.
LEMMA HostStep ==
  ASSUME GoodRun(run), NEW s \in Steps, NEW resident, run' = [run EXCEPT !.resident = resident, !.step = s],
         resident = FALSE, s \in OfLayer => run.step \in OfLayer,
         s \notin {"gather", "upload", "rlogits", "rln", "radd", "hlogits"}
  PROVE  GoodRun(run') /\ run'.step # "hlogits" /\ ~run'.resident
<1>1. run \in Run
  BY DEF GoodRun
<1>2. /\ run' \in Run /\ run'.step = s /\ run'.layer = run.layer /\ run'.n = run.n
      /\ run'.resident = FALSE
  BY <1>1 DEF Run
<1>3. \A r \in Run : r.step = s /\ r.layer = run.layer /\ r.n = run.n /\ r.resident = FALSE => GoodRun(r)
  BY DEF GoodRun
<1> QED BY <1>2, <1>3

\* The end of a token.
LEMMA Ended ==
  ASSUME GoodRun(run), NEW resident \in BOOLEAN, run' = [run EXCEPT !.resident = resident, !.step = "idle"]
  PROVE  GoodRun(run') /\ run'.step # "hlogits" /\ run'.resident = resident
<1>1. run \in Run
  BY DEF GoodRun
<1>2. /\ run' \in Run /\ run'.step = "idle" /\ run'.resident = resident
  BY <1>1 DEF Run, Steps
<1>3. \A r \in Run : r.step = "idle" => GoodRun(r)
  BY DEF GoodRun, OfLayer
<1> QED BY <1>2, <1>3

\* The KV is written again: the pass goes on with what it has.
LEMMA RebuildsMove ==
  ASSUME GoodRun(run), run.step = "rebuild", NEW fails, Rebuilds(fails)
  PROVE  GoodRun(run') /\ run'.step # "hlogits" /\ (run'.resident => run.resident)
<1>0. run \in Run /\ run.step \in OfLayer /\ run.resident \in BOOLEAN
  BY DEF GoodRun, Run, OfLayer, Steps, HostSteps
<1>1. CASE run' = [run EXCEPT !.sub = run.sub + 1]
  <2>1. /\ run' \in Run /\ run'.step = run.step /\ run'.layer = run.layer /\ run'.n = run.n
        /\ run'.resident = run.resident
    BY <1>0, <1>1 DEF Run
  <2> QED BY <2>1 DEF GoodRun
<1>2. CASE run' = [run EXCEPT !.resident = FALSE,
                              !.step = IF gpu[multi.cur].active THEN "recover" ELSE "failed"]
  <2> DEFINE s == IF gpu[multi.cur].active THEN "recover" ELSE "failed"
  <2>1. s \in {"recover", "failed"}
    OBVIOUS
  <2> HIDE DEF s
  <2>2. s \in Steps /\ s \notin {"gather", "upload", "rlogits", "rln", "radd", "hlogits"}
    BY <2>1 DEF Steps, ResidentSteps
  <2>3. run' = [run EXCEPT !.resident = FALSE, !.step = s]
    BY <1>2 DEF s
  <2> QED BY <1>0, <2>2, <2>3, HostStep
<1>3. CASE ~run.resident /\ \E s \in {"hattnffn", "wo", "scores"} : run' = [run EXCEPT !.step = s]
  <2>1. PICK s \in {"hattnffn", "wo", "scores"} : run' = [run EXCEPT !.step = s]
    BY <1>3
  <2>2. s \in Steps /\ s \notin {"gather", "upload", "rlogits", "rln", "radd", "hlogits"}
    BY <2>1 DEF Steps, HostSteps
  <2> QED BY <1>0, <1>3, <2>1, <2>2, SameLayer
<1> QED
  <2>1. \/ run' = [run EXCEPT !.sub = run.sub + 1]
        \/ run' = [run EXCEPT !.resident = FALSE,
                              !.step = IF gpu[multi.cur].active THEN "recover" ELSE "failed"]
        \/ ~run.resident /\ \E b \in BOOLEAN : run' = [run EXCEPT !.step = IF b THEN AfterScores ELSE "scores"]
    BY Zenon DEF Rebuilds
  <2>2. ASSUME NEW b \in BOOLEAN
        PROVE  (IF b THEN AfterScores ELSE "scores") \in {"hattnffn", "wo", "scores"}
    BY AfterScoresIs
  <2> QED BY <1>1, <1>2, <1>3, <2>1, <2>2

\* A product has come back, from a device or from the host.
LEMMA ProductMoves ==
  ASSUME GoodRun(run), cfg.family \in Families, run.step \in Products, ProductDone(run.step)
  PROVE  GoodRun(run') /\ run'.step # "hlogits" /\ run'.resident = run.resident
<1>0. run \in Run /\ run.step \in OfLayer /\ run.resident \in BOOLEAN /\ Calling
  BY DEF GoodRun, Run, Products, OfLayer, Steps, HostSteps, Calling
<1>1. run.resident => run.n = 1 /\ cfg.family = "phi2" /\ run.step \in Phi2Steps
  BY <1>0, ResidentIs DEF Products, ResidentSteps
<1>2. ASSUME NEW s \in Steps, run' = [run EXCEPT !.step = s], s \notin {"gather", "upload", "rlogits", "hlogits"},
             s \in {"rln", "radd"} => cfg.family = "phi2",
             run.resident => s \in Phi2Steps \cup {"radd", "radd2"}
      PROVE  GoodRun(run') /\ run'.step # "hlogits" /\ run'.resident = run.resident
  <2>1. run.resident => \/ s \in (ResidentSteps \ {"recover"}) \cup {"rebuild", "failed"}
                        \/ cfg.family = "phi2" /\ s \in Phi2Steps
    BY <1>1, <1>2 DEF ResidentSteps
  <2> QED BY <1>0, <1>2, <2>1, SameLayer
<1>3. CASE run.step \in {"q", "gate", "up"} /\ To(Chain[run.step])
  <2>1. run.step \in DOMAIN Chain
    BY <1>3 DEF Chain
  <2> DEFINE s == Chain[run.step]
  <2>2. /\ s \in Steps \ {"gather", "upload", "rlogits", "rln", "radd"}
        /\ run.step \in Phi2Steps => s \in Phi2Steps
        /\ s # "hlogits"
    BY <1>3, <2>1, ChainIs
  <2>3. run' = [run EXCEPT !.step = s]
    BY <1>3 DEF To
  <2> HIDE DEF s
  <2> QED BY <1>1, <1>2, <2>2, <2>3
<1>4. CASE run.step = "k" /\ To(IF cfg.family = "mla" THEN AfterQKV ELSE "v")
  <2> DEFINE s == IF cfg.family = "mla" THEN AfterQKV ELSE "v"
  <2>1. s \in {"hattnffn", "wo", "append", "v"} /\ (cfg.family = "phi2" => s = "v")
    BY AfterScoresIs
  <2>2. run' = [run EXCEPT !.step = s]
    BY <1>4 DEF To
  <2> HIDE DEF s
  <2>3. s \in Steps /\ (run.resident => s \in Phi2Steps)
    BY <1>1, <2>1 DEF Steps, HostSteps, Phi2Steps
  <2> QED BY <1>2, <2>1, <2>2, <2>3
<1>5. CASE run.step = "v" /\ run' = [run EXCEPT !.step = AfterQKV]
  <2>1. AfterQKV \in {"hattnffn", "wo", "append"} /\ (cfg.family = "phi2" => AfterQKV \in {"wo", "append"})
    BY AfterScoresIs
  <2>2. AfterQKV \in Steps /\ (run.resident => AfterQKV \in Phi2Steps)
    BY <1>1, <2>1 DEF Steps, HostSteps, Phi2Steps
  <2> QED BY <1>2, <1>5, <2>1, <2>2
<1>6. CASE run.step = "wo" /\ To(AfterWO)
  <2>1. IF run.resident /\ run.n = 1 THEN AfterWO = "radd" ELSE AfterWO \in {"up", "router", "ffn", "gate"}
    BY <1>1, AfterWOIs
  <2>2. AfterWO \in Steps /\ (run.resident => AfterWO = "radd") /\ AfterWO \in {"radd", "up", "router", "ffn", "gate"}
    BY <1>1, <2>1 DEF Steps, HostSteps, ResidentSteps
  <2>3. AfterWO \in {"rln", "radd"} => cfg.family = "phi2"
    BY <1>1, <2>1
  <2>4. run' = [run EXCEPT !.step = AfterWO]
    BY <1>6 DEF To
  <2> QED BY <1>2, <2>2, <2>3, <2>4
<1>7. CASE run.step = "router" /\ (IF model.moeGPU THEN To("expert") ELSE ToNextLayer)
  <2>1. ~run.resident
    BY <1>1, <1>7 DEF Phi2Steps
  <2>2. CASE To("expert")
    <3>1. "expert" \in Steps
      BY DEF Steps, HostSteps
    <3> QED BY <1>2, <2>1, <2>2, <3>1 DEF To
  <2>3. CASE ToNextLayer
    BY <1>0, <2>3, NextLayerGood DEF ToNextLayer
  <2> QED BY <1>7, <2>2, <2>3
<1>8. CASE run.step = "down" /\ (IF Resident1 THEN To("radd2") ELSE ToNextLayer)
  <2>1. CASE To("radd2")
    <3>1. "radd2" \in Steps
      BY DEF Steps, ResidentSteps
    <3> QED BY <1>2, <2>1, <3>1 DEF To
  <2>2. CASE ToNextLayer
    BY <1>0, <2>2, NextLayerGood DEF ToNextLayer
  <2> QED BY <1>8, <2>1, <2>2
<1> QED BY <1>3, <1>4, <1>5, <1>6, <1>7, <1>8 DEF ProductDone

\* A call that does not make the hidden state resident carries it on.
LEMMA CarriesOn ==
  ASSUME GoodRun(run), Calling, run.step # "sync", run'.step # "hlogits", run'.resident => run.resident
  PROVE  Carried(run, run')
<1>1. run.step \in {"recover", "release"} => ~run.resident
  BY ResidentIs DEF ResidentSteps, Phi2Steps
<1> QED BY <1>1 DEF Carried, Counts

\* The logits of the host's hidden state, computed by a device.
LEMMA HeadOnHost ==
  ASSUME GoodRun(run), run.step = "hlogits",
         run' = [run EXCEPT !.resident = ~Single, !.step = IF Single THEN "release" ELSE "idle"]
  PROVE  GoodRun(run') /\ Carried(run, run')
<1>1. run \in Run
  BY DEF GoodRun
<1>2. CASE run.n = 1
  <2>1. run' \in Run /\ run'.step = "release" /\ run'.resident = FALSE
    BY <1>1, <1>2 DEF Run, Single, Steps, HostSteps
  <2> QED BY <2>1 DEF GoodRun, Carried, Counts, OfLayer
<1>3. CASE run.n # 1
  <2>1. run' \in Run /\ run'.step = "idle"
    BY <1>1, <1>3 DEF Run, Single, Steps, HostSteps
  <2> QED BY <2>1 DEF GoodRun, Carried, Counts, OfLayer
<1> QED BY <1>2, <1>3

\* A call that succeeded.
LEMMA SucceededMoves ==
  ASSUME GoodRun(run), cfg.family \in Families, Calling, Succeeded(run.step)
  PROVE  GoodRun(run') /\ Carried(run, run')
<1>0. run \in Run /\ run.resident \in BOOLEAN
  BY DEF GoodRun, Run
<1>1. CASE run.step \in Products /\ ProductDone(run.step)
  <2>1. GoodRun(run') /\ run'.step # "hlogits" /\ run'.resident = run.resident
    BY <1>1, ProductMoves
  <2> QED BY <1>1, <2>1, CarriesOn DEF Products
<1>2. CASE run.step \in DOMAIN Chain \ Products /\ To(Chain[run.step])
  <2> DEFINE s == Chain[run.step]
  <2>1. run' = [run EXCEPT !.step = s]
    BY <1>2 DEF To
  <2>2. /\ s \in Steps \ {"gather", "upload", "rlogits", "rln", "radd"}
        /\ s \in {"idle", "hlogits"} <=> run.step \in {"release", "hupload"}
        /\ s = "hlogits" => run.step = "hupload"
        /\ run.step \in {"rattnout", "rrouter", "rexpert"} => s \in ResidentSteps \ {"recover"}
        /\ run.step \in Phi2Steps \cup {"rln", "radd"} => s \in Phi2Steps
        /\ \/ run.step \in {"gate", "expert", "hupload", "release"}
           \/ run.step \in Phi2Steps \cup {"rln", "radd"}
           \/ run.step \in {"rattnout", "rrouter", "rexpert"}
    BY <1>2, ChainIs
  <2>3. run.step \in {"rln", "radd"} => cfg.family = "phi2"
    BY DEF GoodRun
  <2> HIDE DEF s
  <2>4. CASE run.step \in {"release", "hupload"}
    <3>1. ~run.resident
      BY <2>4, ResidentIs DEF ResidentSteps, Phi2Steps
    <3>2. /\ run' \in Run /\ run'.step = s /\ ~run'.resident
      BY <1>0, <2>1, <2>2, <3>1 DEF Run
    <3>3. GoodRun(run')
      BY <2>2, <2>4, <3>2 DEF GoodRun, OfLayer
    <3>4. Carried(run, run')
      BY <2>2, <2>4, <3>2 DEF Carried, Counts
    <3> QED BY <3>3, <3>4
  <2>5. CASE run.step \notin {"release", "hupload"}
    <3>1. run.step \in OfLayer
      BY <1>0, <2>2, <2>5 DEF OfLayer, Run, Steps, ResidentSteps, HostSteps, Phi2Steps
    <3>2. run.resident =>
            \/ s \in (ResidentSteps \ {"recover"}) \cup {"rebuild", "failed"}
            \/ cfg.family = "phi2" /\ s \in Phi2Steps
      BY <2>2, <2>3, <2>5, ResidentIs DEF ResidentSteps, Phi2Steps
    <3>3. GoodRun(run') /\ run'.step # "hlogits" /\ run'.resident = run.resident
      BY <2>1, <2>2, <2>5, <3>1, <3>2, SameLayer
    <3>4. run.step # "sync"
      BY <2>2 DEF Phi2Steps
    <3> QED BY <3>3, <3>4, CarriesOn
  <2> QED BY <2>4, <2>5
<1>3. CASE run.step \in EndsLayer /\ ToNextLayer
  <2>1. run.step \in OfLayer /\ run.step # "sync"
    BY <1>3 DEF EndsLayer, OfLayer, Steps, ResidentSteps, HostSteps
  <2>2. GoodRun(run') /\ run'.step # "hlogits" /\ run'.resident = run.resident
    BY <1>3, <2>1, NextLayerGood DEF ToNextLayer
  <2> QED BY <2>1, <2>2, CarriesOn
<1>4. CASE run.step = "upload" /\ run' = [run EXCEPT !.resident = TRUE, !.step = LayerFrom(0, TRUE)]
  <2> DEFINE s == LayerFrom(0, TRUE)
  <2>1. run.n = 1 /\ run.layer < NumLayers /\ 0 \in 0..NumLayers /\ 0 < NumLayers
    BY <1>4, SizesAssumption DEF GoodRun, OfLayer, Steps, ResidentSteps
  <2>2. s \in {"rln", "rqkv"} /\ (s = "rln" => cfg.family = "phi2")
    BY <2>1, LayerFromIs
  <2> HIDE DEF s
  <2>3. /\ run' \in Run /\ run'.step = s /\ run'.resident /\ run'.n = 1 /\ run'.layer < NumLayers
    BY <1>0, <1>4, <2>1, <2>2 DEF Run, Steps, ResidentSteps, s
  <2>4. GoodRun(run')
    BY <2>2, <2>3 DEF GoodRun, ResidentSteps
  <2> QED BY <1>4, <2>4 DEF Carried
<1>5. CASE run.step = "rqkv" /\ run' = [run EXCEPT !.step = IF cfg.family = "moe" THEN "rattnout" ELSE "rattnffn"]
  <2> DEFINE s == IF cfg.family = "moe" THEN "rattnout" ELSE "rattnffn"
  <2>1. s \in {"rattnout", "rattnffn"} /\ run' = [run EXCEPT !.step = s]
    BY <1>5
  <2> HIDE DEF s
  <2>2. s \in Steps /\ run.step \in OfLayer /\ s \in ResidentSteps \ {"recover"} /\ run.step # "sync"
    BY <1>5, <2>1 DEF Steps, ResidentSteps, OfLayer
  <2>3. GoodRun(run') /\ run'.step # "hlogits" /\ run'.resident = run.resident
    BY <2>1, <2>2, SameLayer
  <2> QED BY <2>2, <2>3, CarriesOn
<1>6. CASE run.step \in {"hqkv", "scores"} /\ To(AfterScores)
  <2>1. AfterScores \in {"hattnffn", "wo"} /\ (cfg.family = "phi2" => AfterScores = "wo")
    BY AfterScoresIs
  <2>2. AfterScores \in Steps /\ run.step \in OfLayer /\ run.step # "sync"
    BY <1>6, <2>1 DEF Steps, HostSteps, OfLayer
  <2>3. run.resident => cfg.family = "phi2" /\ AfterScores \in Phi2Steps
    BY <1>6, <2>1, ResidentIs DEF ResidentSteps, Phi2Steps
  <2>4. GoodRun(run') /\ run'.step # "hlogits" /\ run'.resident = run.resident
    BY <1>6, <2>1, <2>2, <2>3, SameLayer DEF To
  <2> QED BY <2>2, <2>4, CarriesOn
<1>7. CASE run.step = "rebuild" /\ Rebuilds(FALSE)
  BY <1>7, RebuildsMove, CarriesOn
<1>8. CASE run.step = "recover" /\ To(HostLayer(run.layer, model.stale))
  <2> DEFINE s == HostLayer(run.layer, model.stale)
  <2>1. s \in {"cpu", "hqkv", "q"}
    BY HostLayerIs
  <2>2. run' = [run EXCEPT !.step = s]
    BY <1>8 DEF To
  <2> HIDE DEF s
  <2>3. s \in Steps /\ run.step \in OfLayer /\ ~run.resident
    BY <1>8, <2>1, ResidentIs DEF Steps, HostSteps, OfLayer, ResidentSteps, Phi2Steps
  <2>4. GoodRun(run') /\ run'.step # "hlogits" /\ run'.resident = run.resident
    BY <2>1, <2>2, <2>3, SameLayer
  <2> QED BY <1>8, <2>4, CarriesOn
<1>9. CASE run.step = "rlogits" /\ run' = [run EXCEPT !.resident = cfg.family # "phi2", !.step = "idle"]
  <2>1. GoodRun(run')
    BY <1>9, Ended
  <2>2. run.resident
    BY <1>9 DEF GoodRun
  <2> QED BY <1>9, <2>1, <2>2 DEF Carried, Counts
<1>10. CASE run.step = "sync" /\ run' = [run EXCEPT !.resident = FALSE, !.step = "idle"]
  <2>1. GoodRun(run') /\ run'.step # "hlogits" /\ run'.resident = FALSE
    BY <1>10, Ended
  <2> QED BY <2>1 DEF Carried, Counts
<1>11. CASE run.step = "hlogits" /\ run' = [run EXCEPT !.resident = ~Single,
                                                       !.step = IF Single THEN "release" ELSE "idle"]
  BY <1>11, HeadOnHost
<1> QED BY <1>1, <1>2, <1>3, <1>4, <1>5, <1>6, <1>7, <1>8, <1>9, <1>10, <1>11 DEF Succeeded

\* The KV begins to be written again.
LEMMA RebuildBegins ==
  ASSUME run \in Run, run' = [run EXCEPT !.step = "rebuild", !.sub = 0]
  PROVE  /\ run' \in Run /\ run'.step = "rebuild" /\ run'.layer = run.layer /\ run'.n = run.n
         /\ run'.resident = run.resident
<1>1. "rebuild" \in Steps
  BY DEF Steps, HostSteps
<1>2. 0 \in Int
  OBVIOUS
<1> QED BY <1>1, <1>2 DEF Run

\* A call of a resident layer failed.
LEMMA LayerFailedMoves ==
  ASSUME GoodRun(run), run.resident, run.step \in ResidentLayer, LayerFailed
  PROVE  GoodRun(run') /\ run'.step # "hlogits" /\ (run'.resident => run.resident)
<1>0. run \in Run /\ run.step \in OfLayer
  BY DEF GoodRun, Run, ResidentLayer, OfLayer, Steps, ResidentSteps, HostSteps
<1>1. CASE model.hollow
  <2>1. To("failed")
    BY <1>1, Zenon DEF LayerFailed
  <2>2. "failed" \in Steps
    BY DEF Steps
  <2> QED BY <1>0, <2>1, <2>2, SameLayer DEF To
<1>2. CASE ~model.hollow /\ op.rc = "kv" /\ cfg.family # "phi2" /\ Length > run.n
  <2>1. run' = [run EXCEPT !.step = "rebuild", !.sub = 0]
    BY <1>2, Zenon DEF LayerFailed
  <2>2. /\ run' \in Run /\ run'.step = "rebuild" /\ run'.layer = run.layer /\ run'.n = run.n
        /\ run'.resident = run.resident
    BY <1>0, <2>1, RebuildBegins
  <2>3. \A r \in Run : r.step = "rebuild" /\ r.layer = run.layer /\ r.n = run.n /\ r.resident = run.resident
                         => GoodRun(r)
    <3>1. "rebuild" \in Steps
      BY DEF Steps, HostSteps
    <3> QED BY <1>0, <3>1, StepIsGood
  <2> QED BY <2>2, <2>3
<1>3. CASE ~model.hollow /\ ~(op.rc = "kv" /\ cfg.family # "phi2" /\ Length > run.n)
  <2> DEFINE s == IF gpu[multi.cur].active THEN "recover" ELSE "failed"
  <2>1. s \in {"recover", "failed"}
    OBVIOUS
  <2>2. RecoverHidden
    BY <1>3, Zenon DEF LayerFailed
  <2>3. run' = [run EXCEPT !.resident = FALSE, !.step = s]
    BY <2>2 DEF RecoverHidden
  <2> HIDE DEF s
  <2>4. s \in Steps /\ s \notin {"gather", "upload", "rlogits", "rln", "radd", "hlogits"}
    BY <2>1 DEF Steps, ResidentSteps
  <2> QED BY <1>0, <2>3, <2>4, HostStep
<1> QED BY <1>1, <1>2, <1>3

\* A call that failed.
LEMMA FailedMoves ==
  ASSUME GoodRun(run), cfg.family \in Families, Calling, Failed(run.step)
  PROVE  GoodRun(run') /\ Carried(run, run')
<1>0. run \in Run /\ run.resident \in BOOLEAN
  BY DEF GoodRun, Run
<1>1. ASSUME NEW s \in {"q", "scores", "hattnffn", "wo", "gate", "down", "failed", "rebuild", "upload"},
             run' = [run EXCEPT !.step = s], run.step \in OfLayer \ {"upload"},
             s = "upload" => run.step = "gather",
             run.resident => \/ s \in {"rebuild", "failed", "upload"}
                             \/ cfg.family = "phi2" /\ s \in Phi2Steps
      PROVE  GoodRun(run') /\ Carried(run, run')
  <2>1. /\ run' \in Run /\ run'.step = s /\ run'.layer = run.layer /\ run'.n = run.n
        /\ run'.resident = run.resident
    BY <1>0, <1>1 DEF Run, Steps, HostSteps, ResidentSteps
  <2>2. GoodRun(run')
    BY <1>1, <2>1 DEF GoodRun, OfLayer, ResidentSteps
  <2>3. run'.step # "hlogits" /\ run.step # "sync"
    BY <1>1, <2>1 DEF OfLayer
  <2> QED BY <2>1, <2>2, <2>3, CarriesOn
<1>2. CASE Resident1 /\ run.step \in ResidentLayer /\ run.step # "act" /\ LayerFailed
  <2>1. run.resident /\ run.step # "sync"
    BY <1>2 DEF Resident1, ResidentLayer
  <2>2. GoodRun(run') /\ run'.step # "hlogits" /\ (run'.resident => run.resident)
    BY <1>2, <2>1, LayerFailedMoves
  <2> QED BY <2>1, <2>2, CarriesOn
<1>3. CASE ~Resident1 /\ run.step \in Products /\ ProductFailed(run.step)
  <2>1. CASE ProductDone(run.step)
    <3>1. GoodRun(run') /\ run'.step # "hlogits" /\ run'.resident = run.resident
      BY <1>3, <2>1, ProductMoves
    <3> QED BY <1>3, <3>1, CarriesOn DEF Products
  <2>2. CASE To("failed")
    <3>1. run.step \in OfLayer \ {"upload"}
      BY <1>3 DEF Products, OfLayer, Steps, HostSteps
    <3> QED BY <1>1, <2>2, <3>1 DEF To
  <2> QED BY <1>3, <2>1, <2>2 DEF ProductFailed
<1>4. CASE run.step = "gather" /\ To("upload")
  <2>1. run.step \in OfLayer \ {"upload"}
    BY <1>4 DEF OfLayer, Steps, ResidentSteps
  <2> QED BY <1>1, <1>4, <2>1 DEF To
<1>5. CASE run.step = "upload" /\ run' = [run EXCEPT !.step = LayerFrom(0, run.resident)]
  <2> DEFINE s == LayerFrom(0, run.resident)
  <2>1. run.n = 1 /\ run.layer < NumLayers /\ 0 \in 0..NumLayers /\ 0 < NumLayers
    BY <1>5, SizesAssumption DEF GoodRun, OfLayer, Steps, ResidentSteps
  <2>2. /\ s \in {"rln", "rqkv", "cpu", "hqkv", "q"} /\ (s = "rln" => cfg.family = "phi2")
        /\ run.resident => s \in {"rlogits", "sync", "rln", "rqkv"}
    BY <1>0, <2>1, LayerFromIs
  <2> HIDE DEF s
  <2>3. /\ run' \in Run /\ run'.step = s /\ run'.resident = run.resident /\ run'.n = 1 /\ run'.layer < NumLayers
    BY <1>0, <1>5, <2>1, <2>2 DEF Run, Steps, ResidentSteps, HostSteps, s
  <2>4. GoodRun(run')
    BY <2>2, <2>3 DEF GoodRun, ResidentSteps
  <2> QED BY <1>5, <2>4 DEF Carried
<1>6. CASE run.step \in {"recover", "sync"} /\ run' = [run EXCEPT !.resident = FALSE, !.step = "failed"]
  <2>1. "failed" \in Steps /\ "failed" \notin OfLayer
    BY DEF Steps, OfLayer
  <2>2. GoodRun(run') /\ run'.step # "hlogits" /\ ~run'.resident
    BY <1>6, <2>1, HostStep
  <2> QED BY <2>2 DEF Carried, Counts
<1>7. CASE run.step = "rlogits" /\ run' = [run EXCEPT !.step = "sync"]
  <2>1. run.resident /\ run.n = 1
    BY <1>7, ResidentIs DEF GoodRun
  <2>2. /\ run' \in Run /\ run'.step = "sync" /\ run'.resident /\ run'.n = 1
    BY <1>0, <1>7, <2>1 DEF Run, Steps, ResidentSteps
  <2>3. GoodRun(run')
    BY <2>2 DEF GoodRun, ResidentSteps, OfLayer
  <2> QED BY <1>7, <2>1, <2>3 DEF Carried, Counts
<1>8. CASE run.step = "hupload" /\ run' = [run EXCEPT !.resident = @ /\ Single, !.step = "idle"]
  <2>1. GoodRun(run')
    BY <1>0, <1>8, Ended
  <2> QED BY <1>8, <2>1 DEF Carried
<1>9. CASE run.step = "hlogits" /\ run' = [run EXCEPT !.resident = ~Single,
                                                      !.step = IF Single THEN "release" ELSE "idle"]
  BY <1>9, HeadOnHost
<1>10. CASE run.step = "release" /\ To("idle")
  <2>1. ~run.resident /\ run' = [run EXCEPT !.resident = FALSE, !.step = "idle"]
    <3>1. ~run.resident
      BY <1>10, ResidentIs DEF ResidentSteps, Phi2Steps
    <3> QED BY <1>0, <1>10, <3>1 DEF To, Run
  <2>2. GoodRun(run') /\ run'.step # "hlogits" /\ run'.resident = FALSE
    BY <2>1, Ended
  <2> QED BY <2>2 DEF Carried, Counts
<1>11. CASE run.step = "hqkv" /\ To("q")
  <2>1. ~run.resident /\ run.step \in OfLayer \ {"upload"}
    BY <1>11, ResidentIs DEF ResidentSteps, Phi2Steps, OfLayer, Steps, HostSteps
  <2> QED BY <1>1, <1>11, <2>1 DEF To
<1>12. CASE ~Resident1 /\ run.step = "append" /\ To(IF Single THEN "scores" ELSE AfterScores)
  <2>1. ~run.resident /\ run.step \in OfLayer \ {"upload"}
    BY <1>12, ResidentIs DEF OfLayer, Steps, HostSteps, Resident1, Single
  <2>2. PICK s : s = IF Single THEN "scores" ELSE AfterScores
    OBVIOUS
  <2>3. s \in {"scores", "hattnffn", "wo"}
    BY <2>2, AfterScoresIs
  <2> QED BY <1>1, <1>12, <2>1, <2>2, <2>3 DEF To
<1>13. CASE ~Resident1 /\ run.step = "append" /\ run' = [run EXCEPT !.step = "rebuild", !.sub = 0]
  <2>1. ~run.resident /\ run.step \in OfLayer
    BY <1>13, ResidentIs DEF OfLayer, Steps, HostSteps, Resident1, Single
  <2>2. /\ run' \in Run /\ run'.step = "rebuild" /\ run'.layer = run.layer /\ run'.n = run.n
        /\ ~run'.resident
    BY <1>0, <1>13, <2>1, RebuildBegins
  <2>3. GoodRun(run')
    BY <2>1, <2>2 DEF GoodRun
  <2> QED BY <2>2, <2>3 DEF Carried, Counts
<1>14. CASE run.step \in {"append", "scores"} /\ cfg.family = "mla" /\ run' = [run EXCEPT !.step = "wo"]
  <2>1. ~run.resident /\ run.step \in OfLayer \ {"upload"}
    BY <1>14, ResidentIs DEF ResidentSteps, OfLayer, Steps, HostSteps
  <2> QED BY <1>1, <1>14, <2>1
<1>15. CASE ~Resident1 /\ run.step = "scores" /\ To(AfterScores)
  <2>1. ~run.resident /\ run.step \in OfLayer \ {"upload"}
    BY <1>15, ResidentIs DEF OfLayer, Steps, HostSteps, Resident1, Single
  <2>2. AfterScores \in {"hattnffn", "wo"}
    BY AfterScoresIs
  <2> QED BY <1>1, <1>15, <2>1, <2>2 DEF To
<1>16. CASE run.step = "rebuild" /\ Rebuilds(TRUE)
  BY <1>16, RebuildsMove, CarriesOn
<1>17. CASE run.step = "hattnffn" /\ To("wo")
  <2>1. ~run.resident /\ run.step \in OfLayer \ {"upload"}
    BY <1>17, ResidentIs DEF ResidentSteps, Phi2Steps, OfLayer, Steps, HostSteps
  <2> QED BY <1>1, <1>17, <2>1 DEF To
<1>18. CASE run.step = "ffn" /\ To("gate")
  <2>1. ~run.resident /\ run.step \in OfLayer \ {"upload"}
    BY <1>18, ResidentIs DEF ResidentSteps, Phi2Steps, OfLayer, Steps, HostSteps
  <2> QED BY <1>1, <1>18, <2>1 DEF To
<1>19. CASE run.step = "act" /\ To("down")
  <2>1. /\ run.resident => cfg.family = "phi2"
        /\ "down" \in Phi2Steps /\ run.step \in OfLayer \ {"upload"}
    BY <1>19, ResidentIs DEF ResidentSteps, Phi2Steps, OfLayer, Steps, HostSteps
  <2> QED BY <1>1, <1>19, <2>1 DEF To
<1>20. CASE /\ run.step \in {"expert", "expert2"}
            /\ run' = [run EXCEPT !.layer = @ + 1, !.step = LayerFrom(run.layer + 1, run.resident)]
  <2>1. run.step \in OfLayer /\ run.step # "sync"
    BY <1>20 DEF OfLayer, Steps, HostSteps
  <2>2. GoodRun(run') /\ run'.step # "hlogits" /\ run'.resident = run.resident
    BY <1>20, <2>1, NextLayerGood
  <2> QED BY <2>1, <2>2, CarriesOn
<1> QED BY <1>2, <1>3, <1>4, <1>5, <1>6, <1>7, <1>8, <1>9, <1>10, <1>11, <1>12, <1>13, <1>14, <1>15,
           <1>16, <1>17, <1>18, <1>19, <1>20 DEF Failed

-----------------------------------------------------------------------------
(* The steps of the model, and the whole specification.                      *)

\* A step that only lets the model go on, with no operation under way.
LEMMA GoesOn ==
  ASSUME IInv, op' = NoOp, UNCHANGED <<gpu, multi, cfg, faults>>, Modes',
         Faultless /\ Counts(run') => gpu[multi.cur].active
  PROVE  IInv'
<1>1. Machine' /\ \A d \in Devices' : Live(gpu'[d])
  BY DEF IInv, CacheInv, Machine, Split, Devices
<1>2. Protected' /\ OfStep' /\ Uploads'
  BY DEF Protected, OfStep, Uploads
<1>3. faults' \in Int /\ faults' <= cfg'.faults /\ ActiveHere' /\ Modes'
  BY DEF IInv, HiddenInv, ActiveHere, OnlyAt, Devices, Modes
<1>4. Counted'
  BY DEF Counted, Counts, Faultless
<1> QED BY <1>1, <1>2, <1>3, <1>4 DEF IInv, CacheInv, HiddenInv

\* What a step needs of the run is needed of the run after it.
LEMMA GoodAfter ==
  ASSUME cfg' = cfg, GoodRun(run')
  PROVE  Modes'
BY DEF Modes, GoodRun

\* A call returns, and the token goes on in one of its modes.
LEMMA ReturnInv ==
  ASSUME IInv, Return
  PROVE  IInv'
<1>1. /\ op # NoOp /\ op.rc # "open" /\ op' = NoOp
      /\ IF op.rc = "ok" THEN Succeeded(run.step) ELSE Failed(run.step)
      /\ UNCHANGED <<gpu, multi, cfg, faults>>
  BY DEF Return
<1>2. GoodRun(run) /\ cfg.family \in Families /\ Calling
  BY <1>1, FamilyIs DEF IInv, CacheInv, Machine, HiddenInv, Modes, OfStep
<1>3. GoodRun(run') /\ Carried(run, run')
  BY <1>1, <1>2, SucceededMoves, FailedMoves
<1>4. Modes'
  BY <1>1, <1>3, GoodAfter
<1>5. ASSUME Faultless, Counts(run') PROVE gpu[multi.cur].active
  <2>1. CASE run.step \in {"upload", "hupload"}
    <3>1. op.kind = "upload"
      BY <1>1, <2>1 DEF IInv, HiddenInv, OfStep
    <3> QED BY <1>1, <1>5, <3>1 DEF IInv, HiddenInv, Uploads
  <2>2. CASE run.step \notin {"upload", "hupload"}
    <3>1. Counts(run) /\ run.step \notin {"recover", "sync", "release"}
      BY <1>3, <1>5, <2>2 DEF Carried
    <3>2. op.kind \notin {"upload", "download"}
      BY <1>1, <2>2, <3>1 DEF IInv, HiddenInv, OfStep
    <3> QED BY <1>5, <3>1, <3>2 DEF IInv, HiddenInv, Counted, Counts
  <2> QED BY <2>1, <2>2
<1> QED BY <1>1, <1>4, <1>5, GoesOn

\* A layer that is not offloaded.
LEMMA HostComputesInv ==
  ASSUME IInv, HostComputes
  PROVE  IInv'
<1>1. /\ run.step = "cpu" /\ op = NoOp /\ op' = NoOp /\ ToNextLayer /\ UNCHANGED <<gpu, multi, cfg, faults>>
  BY DEF HostComputes
<1>2. GoodRun(run) /\ run.step \in OfLayer
  BY <1>1 DEF IInv, HiddenInv, Modes, OfLayer, Steps
<1>3. GoodRun(run') /\ run'.step # "hlogits" /\ run'.resident = run.resident
  BY <1>1, <1>2, NextLayerGood DEF ToNextLayer
<1>4. Modes'
  BY <1>1, <1>3, GoodAfter
<1>5. Faultless /\ Counts(run') => gpu[multi.cur].active
  BY <1>1, <1>3 DEF IInv, HiddenInv, Counted, Counts
<1> QED BY <1>1, <1>4, <1>5, GoesOn

\* The first step of a token or of a chunk.
LEMMA ForwardIs ==
  ASSUME IInv, NEW n \in {1, cfg.nBatch}, Forward(n)
  PROVE  /\ run.step = "idle" /\ op = NoOp /\ op' = NoOp /\ UNCHANGED <<gpu, multi, cfg, model, faults>>
         /\ n \in Nat /\ n >= 1 /\ (run.resident => n = 1)
         /\ \E s : /\ run' = [run EXCEPT !.layer = 0, !.n = n, !.last = @ + n, !.step = s]
                   /\ \/ s \in {"gather", "upload"} /\ n = 1
                      \/ /\ s \in {"rln", "rqkv"} /\ n = 1 /\ run.resident
                         /\ s = "rln" <=> cfg.family = "phi2"
                      \/ s \in {"cpu", "hqkv", "q"} /\ ~run.resident
<1> DEFINE hidden == n = 1 /\ model.residency /\ ~model.stale
           s == CASE hidden -> IF cfg.gather THEN "gather" ELSE "upload"
                  [] ~hidden /\ run.resident /\ n = 1 -> IF cfg.family = "phi2" THEN "rln" ELSE "rqkv"
                  [] OTHER -> IF ~LayerOnGPU(0) THEN "cpu"
                              ELSE IF n = 1 /\ cfg.fusedQKV /\ ~model.stale THEN "hqkv" ELSE "q"
<1>1. /\ run.step = "idle" /\ op = NoOp /\ op' = NoOp /\ (n > 1 => ~run.resident)
      /\ run' = [run EXCEPT !.layer = 0, !.n = n, !.last = @ + n, !.step = s]
      /\ UNCHANGED <<gpu, multi, cfg, model, faults>>
  BY DEF Forward
<1>2. n \in Nat /\ n >= 1
  BY SizesAssumption DEF ConfigsAssumption, IInv, CacheInv, Machine
<1>3. run.resident => n = 1
  BY <1>1, <1>2
<1>4. \/ s \in {"gather", "upload"} /\ n = 1
      \/ s \in {"rln", "rqkv"} /\ n = 1 /\ run.resident /\ (s = "rln" <=> cfg.family = "phi2")
      \/ s \in {"cpu", "hqkv", "q"} /\ ~run.resident
  <2>1. CASE hidden
    <3>1. s = IF cfg.gather THEN "gather" ELSE "upload"
      BY <2>1, Zenon
    <3> QED BY <2>1, <3>1
  <2>2. CASE ~hidden /\ run.resident /\ n = 1
    <3>1. s = IF cfg.family = "phi2" THEN "rln" ELSE "rqkv"
      BY <2>2, Zenon
    <3> QED BY <2>2, <3>1
  <2>3. CASE ~hidden /\ ~(run.resident /\ n = 1)
    <3>1. s \in {"cpu", "hqkv", "q"}
      BY <2>3, Zenon
    <3> QED BY <1>3, <2>3, <3>1
  <2> QED BY <2>1, <2>2, <2>3
<1> HIDE DEF s
<1> QED BY <1>1, <1>2, <1>3, <1>4

\* A token or a chunk begins, with its hidden state where the last one left it.
LEMMA ForwardInv ==
  ASSUME IInv, NEW n \in {1, cfg.nBatch}, Forward(n)
  PROVE  IInv'
<1>1. /\ run.step = "idle" /\ op = NoOp /\ op' = NoOp /\ UNCHANGED <<gpu, multi, cfg, faults>>
      /\ n \in Nat /\ n >= 1 /\ (run.resident => n = 1)
  BY ForwardIs
<1>2. PICK s : /\ run' = [run EXCEPT !.layer = 0, !.n = n, !.last = @ + n, !.step = s]
               /\ \/ s \in {"gather", "upload"} /\ n = 1
                  \/ s \in {"rln", "rqkv"} /\ n = 1 /\ run.resident /\ (s = "rln" => cfg.family = "phi2")
                  \/ s \in {"cpu", "hqkv", "q"} /\ ~run.resident
  BY ForwardIs
<1>3. run \in Run /\ run.resident \in BOOLEAN /\ run.last \in Int
  BY DEF IInv, HiddenInv, Modes, GoodRun, Run
<1>4. 0 \in 0..NumLayers /\ 0 < NumLayers
  BY SizesAssumption
<1>6. s \in Steps /\ s # "hlogits"
  BY <1>2 DEF Steps, ResidentSteps, HostSteps
<1>7. /\ run' \in Run /\ run'.step = s /\ run'.layer = 0 /\ run'.n = n /\ run'.resident = run.resident
  <2>1. run.last + n \in Int
    BY <1>1, <1>3
  <2>2. run' = [run EXCEPT !.layer = 0, !.n = n, !.last = run.last + n, !.step = s]
    BY <1>2
  <2> QED BY <1>1, <1>3, <1>4, <1>6, <2>1, <2>2 DEF Run
<1>8. GoodRun(run')
  BY <1>1, <1>2, <1>4, <1>7 DEF GoodRun, ResidentSteps
<1>9. Modes'
  BY <1>1, <1>8, GoodAfter
<1>10. Faultless /\ Counts(run') => gpu[multi.cur].active
  BY <1>1, <1>6, <1>7 DEF IInv, HiddenInv, Counted, Counts
<1> QED BY <1>1, <1>9, <1>10, GoesOn

\* A new conversation begins.
LEMMA ResetInv ==
  ASSUME IInv, ResetCache
  PROVE  IInv'
<1>1. /\ run' = [run EXCEPT !.step = "idle", !.first = run.last + 1, !.resident = FALSE, !.n = 0]
      /\ op' = NoOp /\ UNCHANGED <<gpu, multi, cfg, faults>>
  BY DEF ResetCache
<1>2. run \in Run /\ run.last + 1 \in Int /\ "idle" \in Steps /\ 0 \in Nat
  BY DEF IInv, HiddenInv, Modes, GoodRun, Run, Steps
<1>3. run' \in Run /\ run'.step = "idle" /\ ~run'.resident
  BY <1>1, <1>2 DEF Run
<1>4. GoodRun(run')
  BY <1>3 DEF GoodRun, OfLayer
<1>5. Modes'
  BY <1>1, <1>4, GoodAfter
<1> QED BY <1>1, <1>3, <1>5, GoesOn DEF Counts

\* Opening the devices establishes the invariant.
LEMMA InitInv ==
  ASSUME Init
  PROVE  IInv
<1>1. PICK c \in Configs :
        /\ cfg = c
        /\ gpu = [d \in 0..c.devices-1 |-> [OpenDevice EXCEPT !.caps = c.caps]]
        /\ multi = KVCacheInit(c)
        /\ op = NoOp
        /\ run = [step |-> "idle", layer |-> 0, first |-> 1, last |-> 0, n |-> 0,
                  resident |-> FALSE, sub |-> 0]
        /\ faults = c.faults
  BY DEF Init
<1>2. cfg.devices \in Nat \ {0} /\ cfg.faults \in Nat /\ NumLayers \in Nat
  BY <1>1, SizesAssumption DEF ConfigsAssumption
<1>3. \A d \in Devices : Device(gpu[d]) /\ Live(gpu[d]) /\ ~gpu[d].active
  <2> DEFINE g == [OpenDevice EXCEPT !.caps = cfg.caps]
  <2>1. DOMAIN g = Fields /\ g = [f \in Fields |-> g[f]] /\ g.lru = <<>> /\ g.graphs = {} /\ g.active = FALSE
    BY DEF OpenDevice, Fields
  <2>2. List(<<>>)
    BY DEF List
  <2> HIDE DEF g
  <2>3. Device(g) /\ Live(g) /\ ~g.active
    BY <2>1, <2>2 DEF Device, Live
  <2>4. \A d \in Devices : gpu[d] = g
    BY <1>1 DEF g, Devices
  <2> QED BY <2>3, <2>4
<1>4. DOMAIN gpu = Devices /\ gpu = [d \in Devices |-> gpu[d]]
  BY <1>1 DEF Devices
<1>5. Split(multi)
  <2> DEFINE bounds == LayerSplitBounds(cfg.ngl, cfg.devices, cfg.split)
  <2>1. DOMAIN bounds = 0..cfg.devices
    BY DEF LayerSplitBounds
  <2> HIDE DEF bounds
  <2>2. OwnerOf(bounds, 0) \in Devices
    BY <1>2, <2>1, OwnerIsDevice DEF Devices
  <2>3. multi = [bounds |-> bounds, cur |-> OwnerOf(bounds, 0), broken |-> {}]
    BY <1>1 DEF KVCacheInit, bounds
  <2> QED BY <2>1, <2>2, <2>3 DEF Split, Plan
<1>6. CacheInv
  BY <1>1, <1>3, <1>4, <1>5 DEF CacheInv, Machine, Protected
<1>7. Modes
  BY <1>1, <1>2 DEF Modes, GoodRun, Run, Steps, OfLayer
<1>8. OfStep /\ ActiveHere /\ Counted /\ Uploads
  BY <1>1, <1>3 DEF OfStep, ActiveHere, OnlyAt, Counted, Uploads
<1> QED BY <1>1, <1>2, <1>6, <1>7, <1>8 DEF IInv, HiddenInv

\* Every step keeps the invariant.
LEMMA NextInv ==
  ASSUME IInv, [Next]_vars
  PROVE  IInv'
<1>1. CASE UNCHANGED vars
  <2>1. UNCHANGED <<gpu, multi, cfg, op, run, faults>>
    BY <1>1 DEF vars
  <2>2. Machine' /\ Protected' /\ \A d \in Devices' : Live(gpu'[d])
    BY <2>1 DEF IInv, CacheInv, Machine, Split, Protected, Devices
  <2>3. Modes'
    BY <2>1 DEF IInv, HiddenInv, Modes, GoodRun
  <2>4. OfStep' /\ ActiveHere' /\ Counted' /\ Uploads'
    BY <2>1 DEF IInv, HiddenInv, OfStep, Calling, ActiveHere, OnlyAt, Devices, Counted, Uploads,
       Faultless
  <2> QED BY <2>1, <2>2, <2>3, <2>4 DEF IInv, CacheInv, HiddenInv
<1>2. CASE \E n \in {1, cfg.nBatch} : Forward(n)
  BY <1>2, ForwardInv
<1> QED BY <1>1, <1>2, ResetInv, IssueInv, UploadInv, LaunchInv, ReturnInv, HostComputesInv,
           EvictInv DEF Next

\* The caches keep what they protect, the graphs live, and a token is in one
\* of its modes with its hidden state where that mode has it.
THEOREM Invariant == Spec => []IInv
<1>1. Init => IInv
  BY InitInv
<1>2. IInv /\ [Next]_vars => IInv'
  BY NextInv
<1> QED BY <1>1, <1>2, PTL DEF Spec

\* Eviction spares the matrices that a fused operation holds while it uploads
\* the others: weightCacheProtect is as much as any operation needs.
THEOREM MatricesStay == Spec => []HeldOnDevice
<1>1. IInv => HeldOnDevice
  BY DEF IInv, CacheInv, Protected, Among, HeldOnDevice, OnDevice
<1> QED BY <1>1, Invariant, PTL

\* Every eviction drops the graphs that embed the pointer of what it frees.
THEOREM GraphsAreLive == Spec => []GraphsUseLiveWeights
<1>1. IInv => GraphsUseLiveWeights
  BY DEF IInv, CacheInv, Live, GraphsUseLiveWeights
<1> QED BY <1>1, Invariant, PTL

\* The hidden state is on one device at most, and without faults on the one
\* where the next operation looks for it when the model counts on it.
THEOREM HiddenIsThere == Spec => []OneHidden
<1>1. IInv => OneHidden
  <2> SUFFICES ASSUME IInv PROVE OneHidden
    OBVIOUS
  <2>1. {d \in Devices : gpu[d].active} \subseteq {multi.cur}
    BY DEF IInv, HiddenInv, ActiveHere, OnlyAt
  <2>2. IsFiniteSet({multi.cur}) /\ Cardinality({multi.cur}) = 1
    BY FS_Singleton
  <2>3. Cardinality({d \in Devices : gpu[d].active}) <= 1
    BY <2>1, <2>2, FS_Subset
  <2> QED BY <2>3 DEF IInv, HiddenInv, Counted, Faultless, OneHidden
<1> QED BY <1>1, Invariant, PTL

-----------------------------------------------------------------------------
(* The books of the weight cache: what is counted, and what eviction leaves. *)

\* No matrix is twice in the list.
Distinct(lru) == \A i, j \in DOMAIN lru : lru[i] = lru[j] => i = j

\* The matrices that take two units.
Twos(lru) == {i \in DOMAIN lru : Size(lru[i]) = 2}

\* p says where in lru the elements of part come from.
From(p, part, lru) ==
  /\ p \in [DOMAIN part -> DOMAIN lru]
  /\ \A i, j \in DOMAIN part : p[i] = p[j] => i = j
  /\ \A i \in DOMAIN part : part[i] = lru[p[i]]
PartOf(part, lru) == \E p : From(p, part, lru)

\* The numbers up to n are n.
LEMMA CountTo == ASSUME NEW n \in Nat PROVE IsFiniteSet(1..n) /\ Cardinality(1..n) = n
<1>1. IsFiniteSet(1..n) /\ Cardinality(1..n) = IF 1 > n THEN 0 ELSE n - 1 + 1
  BY FS_Interval
<1> QED BY <1>1

\* The bytes of a list are its length and one more for each product.
LEMMA BytesAre ==
  ASSUME NEW lru, List(lru)
  PROVE  /\ IsFiniteSet(Twos(lru)) /\ Cardinality(Twos(lru)) \in Nat /\ Len(lru) \in Nat
         /\ DOMAIN lru = 1..Len(lru) /\ Bytes(lru) = Len(lru) + Cardinality(Twos(lru))
         /\ Bytes(lru) \in Nat /\ Bytes(lru) <= 2 * Len(lru)
<1> DEFINE S == DOMAIN lru
           ones == {i \in S : Size(lru[i]) = 1}
<1>1. S = 1..Len(lru) /\ Len(lru) \in Nat
  BY DEF List
<1>2. IsFiniteSet(S) /\ Cardinality(S) = Len(lru)
  BY <1>1, CountTo, Zenon
<1>3. Twos(lru) = S \ ones /\ ones \subseteq S /\ S \cap ones = ones
  BY DEF Twos, Size
<1> HIDE DEF S, ones
<1>4. IsFiniteSet(ones) /\ Cardinality(ones) <= Cardinality(S) /\ Cardinality(ones) \in Nat
  BY <1>2, <1>3, FS_Subset, FS_CardinalityType
<1>5. IsFiniteSet(Twos(lru)) /\ Cardinality(Twos(lru)) = Cardinality(S) - Cardinality(ones)
  BY <1>2, <1>3, FS_Difference
<1>6. Bytes(lru) = 2 * Len(lru) - Cardinality(ones)
  BY DEF Bytes, ones, S
<1> QED BY <1>1, <1>2, <1>4, <1>5, <1>6 DEF S

\* A part of a list is no longer, takes no more memory, and repeats nothing new.
LEMMA PartsCount ==
  ASSUME NEW lru, List(lru), NEW part, List(part), PartOf(part, lru)
  PROVE  /\ Len(part) <= Len(lru) /\ Bytes(part) <= Bytes(lru)
         /\ Distinct(lru) => Distinct(part)
<1>1. PICK p : From(p, part, lru)
  BY DEF PartOf
<1>2. /\ Len(part) \in Nat /\ DOMAIN part = 1..Len(part) /\ Cardinality(Twos(part)) \in Nat
      /\ Len(lru) \in Nat /\ DOMAIN lru = 1..Len(lru) /\ IsFiniteSet(Twos(lru)) /\ Cardinality(Twos(lru)) \in Nat
      /\ Bytes(lru) = Len(lru) + Cardinality(Twos(lru)) /\ Bytes(part) = Len(part) + Cardinality(Twos(part))
  BY BytesAre
<1>3. Len(part) <= Len(lru)
  <2>1. p \in Injection(DOMAIN part, DOMAIN lru)
    BY <1>1 DEF From, Injection, IsInjective
  <2>2. /\ IsFiniteSet(DOMAIN lru) /\ Cardinality(DOMAIN lru) = Len(lru)
        /\ Cardinality(DOMAIN part) = Len(part)
    BY <1>2, CountTo
  <2> QED BY <2>1, <2>2, FS_Injection
<1>4. Cardinality(Twos(part)) <= Cardinality(Twos(lru))
  <2> DEFINE q == [i \in Twos(part) |-> p[i]]
  <2>1. q \in Injection(Twos(part), Twos(lru))
    BY <1>1 DEF From, Injection, IsInjective, Twos
  <2> QED BY <1>2, <2>1, FS_Injection
<1>5. Distinct(lru) => Distinct(part)
  BY <1>1 DEF From, Distinct
<1> QED BY <1>2, <1>3, <1>4, <1>5

\* A list of distinct matrices is as long as there are matrices on the device.
LEMMA DistinctCount ==
  ASSUME NEW lru, List(lru), Distinct(lru)
  PROVE  Cardinality(OnDevice(lru)) = Len(lru)
<1>1. DOMAIN lru = 1..Len(lru) /\ Len(lru) \in Nat /\ lru \in Seq(OnDevice(lru))
  BY DEF List
<1>2. IsFiniteSet(DOMAIN lru) /\ Cardinality(DOMAIN lru) = Len(lru)
  BY <1>1, CountTo
<1> DEFINE f == [i \in DOMAIN lru |-> lru[i]]
<1>3. f \in Injection(DOMAIN lru, OnDevice(lru))
  BY DEF Injection, IsInjective, Distinct, OnDevice
<1>4. f \in Surjection(DOMAIN lru, OnDevice(lru))
  BY DEF Surjection, OnDevice
<1>5. Cardinality(OnDevice(lru)) = Cardinality(DOMAIN lru)
  BY <1>2, <1>3, <1>4, FS_Surjection
<1> QED BY <1>2, <1>5

\* Eviction from the back leaves the front of the list.
LEMMA EnforcedPart ==
  ASSUME NEW lru, List(lru), NEW caps
  PROVE  /\ PartOf(Enforced(lru, caps), lru) /\ Len(Enforced(lru, caps)) \in Kept(lru, caps)
         /\ Enforced(lru, caps) = SubSeq(lru, 1, Len(Enforced(lru, caps)))
<1> DEFINE K == Kept(lru, caps)
           c == CHOOSE k \in K : \A j \in K : j <= k
<1>0. lru \in Seq(OnDevice(lru)) /\ DOMAIN lru = 1..Len(lru) /\ Len(lru) \in Nat
  BY DEF List
<1>1. K \in SUBSET (0..Len(lru)) /\ 0 \in K
  BY <1>0, ProtectAssumption DEF Kept
<1>2. \E m \in K : \A y \in K : y <= m
  BY <1>0, <1>1, Greatest
<1>3. c \in K
  BY <1>2
<1>4. Enforced(lru, caps) = SubSeq(lru, 1, c)
  BY DEF Enforced
<1> HIDE DEF c, K
<1>5. SubSeq(lru, 1, c) \in Seq(OnDevice(lru)) /\ Len(SubSeq(lru, 1, c)) = c
      /\ DOMAIN SubSeq(lru, 1, c) = 1..c /\ \A i \in 1..c : SubSeq(lru, 1, c)[i] = lru[i]
  BY <1>0, <1>1, <1>3
<1>6. From([i \in 1..c |-> i], SubSeq(lru, 1, c), lru)
  BY <1>0, <1>1, <1>3, <1>5 DEF From
<1>7. PartOf(SubSeq(lru, 1, c), lru)
  BY <1>6 DEF PartOf
<1> QED BY <1>3, <1>4, <1>5, <1>7 DEF K

\* What is left of a matrix's list without it.
LEMMA WithoutIs ==
  ASSUME NEW lru, List(lru), NEW m \in OnDevice(lru)
  PROVE  \E at \in 1..Len(lru) :
           /\ lru[at] = m /\ Without(lru, m) \in Seq(OnDevice(lru)) /\ Len(Without(lru, m)) = Len(lru) - 1
           /\ \A i \in 1..Len(lru) - 1 : Without(lru, m)[i] = lru[IF i < at THEN i ELSE i + 1]
<1>0. lru \in Seq(OnDevice(lru)) /\ DOMAIN lru = 1..Len(lru) /\ Len(lru) \in Nat
  BY DEF List
<1> DEFINE S == OnDevice(lru)
           at == CHOOSE i \in DOMAIN lru : lru[i] = m
           W1 == SubSeq(lru, 1, at - 1)
           W2 == SubSeq(lru, at + 1, Len(lru))
<1>1. at \in DOMAIN lru /\ lru[at] = m
  BY DEF OnDevice
<1>2. Without(lru, m) = W1 \o W2
  BY DEF Without
<1> HIDE DEF at, S
<1>3. lru \in Seq(S) /\ at \in 1..Len(lru) /\ Len(lru) \in Nat
  BY <1>0, <1>1 DEF S
<1>4. W1 \in Seq(S) /\ Len(W1) = at - 1 /\ \A i \in 1..(at - 1) : W1[i] = lru[i]
  BY <1>3
<1>5. W2 \in Seq(S) /\ Len(W2) = Len(lru) - at
  BY <1>3
<1>6. ASSUME NEW i \in 1..(Len(lru) - at) PROVE W2[i] = lru[at + i]
  <2>1. W2[i] = lru[(at + 1) + i - 1]
    BY <1>3
  <2> QED BY <1>3, <2>1
<1> HIDE DEF W1, W2
<1>7. W1 \o W2 \in Seq(S) /\ Len(W1 \o W2) = Len(lru) - 1
  <2>1. W1 \o W2 \in Seq(S)
    BY <1>4, <1>5
  <2>2. Len(W1 \o W2) = Len(W1) + Len(W2)
    BY <1>4, <1>5
  <2>3. (at - 1) + (Len(lru) - at) = Len(lru) - 1
    BY <1>3
  <2> QED BY <1>4, <1>5, <2>1, <2>2, <2>3
<1>8. ASSUME NEW i \in 1..Len(lru) - 1
      PROVE  (W1 \o W2)[i] = lru[IF i < at THEN i ELSE i + 1]
  <2>1. CASE i < at
    BY <1>3, <1>4, <1>5, <2>1
  <2>2. CASE ~(i < at)
    <3>1. i - (at - 1) \in 1..(Len(lru) - at) /\ at + (i - (at - 1)) = i + 1
      BY <1>3, <2>2
    <3>2. (W1 \o W2)[i] = W2[i - (at - 1)]
      BY <1>3, <1>4, <1>5, <2>2
    <3>3. W2[i - (at - 1)] = lru[at + (i - (at - 1))]
      BY <1>6, <3>1
    <3> QED BY <2>2, <3>1, <3>2, <3>3
  <2> QED BY <2>1, <2>2
<1> QED BY <1>1, <1>2, <1>3, <1>7, <1>8 DEF S

\* It is a part of it.
LEMMA WithoutPart ==
  ASSUME NEW lru, List(lru), NEW m
  PROVE  List(Without(lru, m)) /\ PartOf(Without(lru, m), lru)
<1>0. lru \in Seq(OnDevice(lru)) /\ DOMAIN lru = 1..Len(lru) /\ Len(lru) \in Nat
  BY DEF List
<1>1. CASE m \notin OnDevice(lru)
  <2>1. Without(lru, m) = lru
    BY <1>1 DEF Without
  <2>2. From([i \in DOMAIN lru |-> i], lru, lru)
    BY <1>0 DEF From
  <2> QED BY <2>1, <2>2 DEF PartOf
<1>2. CASE m \in OnDevice(lru)
  <2>1. PICK at \in 1..Len(lru) :
          /\ lru[at] = m /\ Without(lru, m) \in Seq(OnDevice(lru)) /\ Len(Without(lru, m)) = Len(lru) - 1
          /\ \A i \in 1..Len(lru) - 1 : Without(lru, m)[i] = lru[IF i < at THEN i ELSE i + 1]
    BY <1>2, WithoutIs
  <2> DEFINE rest == Without(lru, m)
             p == [i \in 1..Len(lru) - 1 |-> IF i < at THEN i ELSE i + 1]
  <2>2. DOMAIN rest = 1..Len(lru) - 1
    BY <1>0, <2>1
  <2> HIDE DEF rest
  <2>3. From(p, rest, lru)
    BY <1>0, <2>1, <2>2 DEF From, rest
  <2> QED BY <2>1, <2>3, SequencesAreLists DEF PartOf, rest
<1> QED BY <1>1, <1>2

\* A matrix that is there is moved, not added.
LEMMA TouchedPart ==
  ASSUME NEW lru, List(lru), NEW m \in OnDevice(lru)
  PROVE  PartOf(Touched(lru, m), lru)
<1>0. lru \in Seq(OnDevice(lru)) /\ DOMAIN lru = 1..Len(lru) /\ Len(lru) \in Nat
  BY DEF List
<1>1. PICK at \in 1..Len(lru) :
        /\ lru[at] = m /\ Without(lru, m) \in Seq(OnDevice(lru)) /\ Len(Without(lru, m)) = Len(lru) - 1
        /\ \A i \in 1..Len(lru) - 1 : Without(lru, m)[i] = lru[IF i < at THEN i ELSE i + 1]
  BY WithoutIs
<1> DEFINE rest == Without(lru, m)
           all == <<m>> \o rest
           p == [i \in 1..Len(lru) |-> IF i = 1 THEN at ELSE IF i - 1 < at THEN i - 1 ELSE i]
<1> HIDE DEF rest
<1>2. DOMAIN all = 1..Len(lru) /\ all[1] = m /\ \A i \in 2..Len(lru) : all[i] = rest[i - 1]
  <2>1. rest \in Seq(OnDevice(lru) \cup {m}) /\ Len(rest) = Len(lru) - 1
    BY <1>1 DEF rest
  <2>2. DOMAIN all = 1..(1 + Len(rest)) /\ all[1] = m /\ \A i \in 2..(1 + Len(rest)) : all[i] = rest[i - 1]
    BY <2>1
  <2>3. 1 + Len(rest) = Len(lru)
    BY <1>0, <2>1
  <2> QED BY <2>2, <2>3
<1>3. ASSUME NEW i \in 1..Len(lru) PROVE all[i] = lru[p[i]]
  <2>1. CASE i = 1
    BY <1>1, <1>2, <2>1
  <2>2. CASE i # 1
    <3>1. i - 1 \in 1..Len(lru) - 1 /\ i \in 2..Len(lru)
      BY <1>0, <2>2
    <3>2. rest[i - 1] = lru[IF i - 1 < at THEN i - 1 ELSE (i - 1) + 1]
      BY <1>1, <3>1 DEF rest
    <3>3. (i - 1) + 1 = i
      BY <3>1
    <3> QED BY <1>2, <2>2, <3>1, <3>2, <3>3
  <2> QED BY <2>1, <2>2
<1> HIDE DEF all
<1>4. From(p, all, lru)
  BY <1>0, <1>1, <1>2, <1>3 DEF From
<1> QED BY <1>4 DEF PartOf, Touched, all, rest

\* A matrix that is not there is added once.
LEMMA TouchedAdds ==
  ASSUME NEW lru, List(lru), NEW m, m \notin OnDevice(lru)
  PROVE  /\ Len(Touched(lru, m)) = Len(lru) + 1 /\ Bytes(Touched(lru, m)) <= Bytes(lru) + Size(m)
         /\ Distinct(lru) => Distinct(Touched(lru, m))
<1> DEFINE all == <<m>> \o lru
<1>0. lru \in Seq(OnDevice(lru)) /\ DOMAIN lru = 1..Len(lru) /\ Len(lru) \in Nat
  BY DEF List
<1>1. Touched(lru, m) = all
  BY DEF Touched, Without
<1>2. /\ all \in Seq(OnDevice(lru) \cup {m}) /\ Len(all) = Len(lru) + 1 /\ all[1] = m
      /\ DOMAIN all = 1..Len(lru) + 1 /\ \A i \in 2..Len(lru) + 1 : all[i] = lru[i - 1]
  BY <1>0
<1> HIDE DEF all
<1>3. List(all)
  BY <1>2, SequencesAreLists
<1>4. /\ Cardinality(Twos(all)) \in Nat /\ Cardinality(Twos(lru)) \in Nat /\ IsFiniteSet(Twos(lru))
      /\ IsFiniteSet(Twos(all))
      /\ Bytes(lru) = Len(lru) + Cardinality(Twos(lru)) /\ Bytes(all) = Len(all) + Cardinality(Twos(all))
  BY <1>3, BytesAre
<1>5. Cardinality(Twos(all) \ {1}) <= Cardinality(Twos(lru))
  <2> DEFINE q == [i \in Twos(all) \ {1} |-> i - 1]
  <2>1. \A i \in Twos(all) \ {1} : i \in 2..Len(lru) + 1 /\ i - 1 \in Twos(lru)
    BY <1>0, <1>2 DEF Twos
  <2>2. q \in Injection(Twos(all) \ {1}, Twos(lru))
    BY <2>1 DEF Injection, IsInjective
  <2> QED BY <1>4, <2>2, FS_Injection
<1>6. Cardinality(Twos(all) \ {1}) = IF 1 \in Twos(all) THEN Cardinality(Twos(all)) - 1 ELSE Cardinality(Twos(all))
  BY <1>4, FS_RemoveElement
<1>7. (1 \in Twos(all) => Size(m) = 2) /\ Size(m) \in {1, 2}
  BY <1>2 DEF Twos, Size
<1>8. Bytes(all) <= Bytes(lru) + Size(m)
  BY <1>0, <1>2, <1>4, <1>5, <1>6, <1>7
<1>9. ASSUME Distinct(lru), NEW i \in DOMAIN all, NEW j \in DOMAIN all, all[i] = all[j] PROVE i = j
  <2>1. \A k \in 2..Len(lru) + 1 : all[k] # m
    <3>1. ASSUME NEW k \in 2..Len(lru) + 1 PROVE lru[k - 1] \in OnDevice(lru)
      BY <1>0 DEF OnDevice
    <3> QED BY <1>2, <3>1
  <2>2. CASE i = 1 \/ j = 1
    BY <1>0, <1>2, <1>9, <2>1, <2>2
  <2>3. CASE i # 1 /\ j # 1
    <3>1. i - 1 \in DOMAIN lru /\ j - 1 \in DOMAIN lru /\ lru[i - 1] = lru[j - 1]
      BY <1>0, <1>2, <1>9, <2>3
    <3>2. i - 1 = j - 1
      BY <1>9, <3>1 DEF Distinct
    <3> QED BY <1>0, <1>2, <3>2
  <2> QED BY <2>2, <2>3
<1> QED BY <1>1, <1>2, <1>8, <1>9 DEF Distinct

\* The selected elements of a list, in their order, are a part of it.
LEMMA SelectedPart ==
  ASSUME NEW lru, List(lru), NEW kept \in SUBSET DOMAIN lru
  PROVE  LET nth(n) == CHOOSE i \in kept : Cardinality({j \in kept : j <= i}) = n
             rest == [n \in 1..Cardinality(kept) |-> lru[nth(n)]]
         IN  List(rest) /\ PartOf(rest, lru)
<1> DEFINE upTo(i) == {j \in kept : j <= i}
           nth(n) == CHOOSE i \in kept : Cardinality(upTo(i)) = n
           rest == [n \in 1..Cardinality(kept) |-> lru[nth(n)]]
<1>0. DOMAIN lru = 1..Len(lru) /\ Len(lru) \in Nat
  BY DEF List
<1>1. IsFiniteSet(kept) /\ Cardinality(kept) \in Nat
  BY <1>0, CountTo, FS_Subset, FS_CardinalityType
<1>2. ASSUME NEW i PROVE IsFiniteSet(upTo(i)) /\ Cardinality(upTo(i)) \in Nat
  <2>1. upTo(i) \in SUBSET kept
    OBVIOUS
  <2> QED BY <1>1, <2>1, FS_Subset, FS_CardinalityType
\* The first element at which n of them have come is the nth: before it there are fewer.
<1>3. ASSUME NEW n \in 1..Cardinality(kept)
      PROVE  \E i \in kept : Cardinality(upTo(i)) = n
  <2> DEFINE late == {i \in kept : Cardinality(upTo(i)) >= n}
  <2>1. kept # {}
    BY <1>1, FS_EmptySet
  <2>2. PICK last \in kept : \A j \in kept : j <= last
    <3>1. kept \in SUBSET (0..Len(lru))
      BY <1>0
    <3> QED BY <1>0, <2>1, <3>1, Greatest
  <2>3. upTo(last) = kept
    BY <2>2
  <2>4. late # {} /\ late \in SUBSET Nat
    <3>1. Cardinality(upTo(last)) >= n
      BY <1>1, <2>3
    <3>2. last \in late
      BY <2>2, <3>1
    <3>3. kept \in SUBSET Nat
      BY <1>0
    <3> QED BY <3>2, <3>3
  <2>5. PICK i \in late : \A j \in late : i <= j
    <3>1. PICK i \in late : \A j \in late : ~ (<<j, i>> \in OpToRel(<, Nat))
      BY <2>4, NatLessThanWellFounded, WFMin, Zenon
    <3>2. ASSUME NEW j \in late PROVE i <= j
      <4>1. j \in Nat /\ i \in Nat
        BY <2>4, <3>1
      <4>2. ~ (j < i)
        BY <3>1, <4>1, Zenon DEF OpToRel
      <4> QED BY <4>1, <4>2
    <3> QED BY <3>1, <3>2
  <2>6. i \in kept /\ Cardinality(upTo(i)) >= n /\ Cardinality(upTo(i)) \in Nat
    BY <1>2, <2>5
  <2> DEFINE before == {j \in kept : j < i}
  <2>7. before = upTo(i) \ {i} /\ i \in upTo(i)
    BY <1>0, <2>6
  <2>8. IsFiniteSet(before) /\ Cardinality(before) = Cardinality(upTo(i)) - 1
    BY <1>2, <2>7, FS_RemoveElement
  <2>9. Cardinality(before) < n
    <3>1. CASE before = {}
      BY <3>1, FS_EmptySet
    <3>2. CASE before # {}
      <4>1. before \in SUBSET (0..Len(lru))
        BY <1>0
      <4>2. PICK k \in before : \A j \in before : j <= k
        BY <1>0, <3>2, <4>1, Greatest
      <4>3. before = upTo(k) /\ k \in kept /\ k < i
        BY <1>0, <2>6, <4>2
      <4>4. k \notin late
        BY <1>0, <2>5, <2>6, <4>3
      <4>5. Cardinality(upTo(k)) < n
        BY <1>2, <4>3, <4>4
      <4> QED BY <4>3, <4>5
    <3> QED BY <3>1, <3>2
  <2>10. Cardinality(upTo(i)) = n
    BY <2>6, <2>8, <2>9
  <2> QED BY <2>6, <2>10
<1>4. ASSUME NEW n \in 1..Cardinality(kept)
      PROVE  nth(n) \in kept /\ Cardinality(upTo(nth(n))) = n
  BY <1>3
<1> HIDE DEF upTo, nth
<1>5. rest \in Seq({lru[nth(n)] : n \in 1..Cardinality(kept)}) /\ DOMAIN rest = 1..Cardinality(kept)
  BY <1>1
<1>6. List(rest)
  BY <1>5, SequencesAreLists
<1> DEFINE p == [n \in 1..Cardinality(kept) |-> nth(n)]
<1>7. From(p, rest, lru)
  BY <1>4 DEF From
<1>8. PartOf(rest, lru)
  BY <1>7 DEF PartOf
<1> QED BY <1>6, <1>8 DEF nth, upTo

\* The books of a device are right: no matrix twice, no more than its memory,
\* and no more than its cap and what is protected.
Accounts(g) ==
  /\ Distinct(g.lru) /\ Bytes(g.lru) <= cfg.vram
  /\ DOMAIN g.caps = {"entries", "bytes"} /\ g.caps.entries \in Int
  /\ g.caps.entries > 0 => Len(g.lru) <= Larger(g.caps.entries, weightProtect)

\* There is memory for the matrices that are protected and one more.
Roomy == cfg.vram >= 2 * (weightProtect + 1)

\* A device that has a part of what it had, under the same caps.
LEMMA PartAccounts ==
  ASSUME cfg \in Configs, NEW g, Device(g), Accounts(g), NEW h, Device(h), PartOf(h.lru, g.lru),
         h.caps = g.caps
  PROVE  Accounts(h)
<1>1. Larger(g.caps.entries, weightProtect) \in Int /\ cfg.vram \in Nat
  BY ProtectAssumption, SizesAssumption DEF Accounts, Larger, ConfigsAssumption
<1>2. List(g.lru) /\ List(h.lru)
  BY DEF Device
<1>3. Bytes(g.lru) \in Nat /\ Bytes(h.lru) \in Nat /\ Len(g.lru) \in Nat /\ Len(h.lru) \in Nat
  BY <1>2, BytesAre
<1>4. Len(h.lru) <= Len(g.lru) /\ Bytes(h.lru) <= Bytes(g.lru) /\ (Distinct(g.lru) => Distinct(h.lru))
  BY <1>2, PartsCount
<1> QED BY <1>1, <1>3, <1>4 DEF Accounts

\* What eviction under the caps leaves keeps to them, but for what is protected.
LEMMA EnforcedCaps ==
  ASSUME NEW lru, List(lru), NEW caps, caps.entries \in Int, caps.entries > 0
  PROVE  Len(Enforced(lru, caps)) <= Larger(caps.entries, weightProtect)
<1> DEFINE rest == Enforced(lru, caps)
<1>1. Len(rest) \in Kept(lru, caps) /\ rest = SubSeq(lru, 1, Len(rest))
  BY EnforcedPart
<1> HIDE DEF rest
<1>2. Len(lru) \in Nat
  BY DEF List
<1>3. Len(rest) \in 0..Len(lru) /\ (Len(rest) <= weightProtect \/ ~OverCaps(rest, caps))
  BY <1>1 DEF Kept
<1>4. ~OverCaps(rest, caps) => Len(rest) <= caps.entries
  BY <1>2, <1>3 DEF OverCaps
<1> QED BY <1>2, <1>3, <1>4, ProtectAssumption DEF Larger, rest

\* An upload keeps the books, whether it succeeds or not.
LEMMA EnsureAccounts ==
  ASSUME cfg \in Configs, NEW g, Device(g), Live(g), Accounts(g), NEW m, NEW e \in Ensure(g, m, cfg.vram)
  PROVE  Accounts(e.gpu)
<1> DEFINE touched == [g EXCEPT !.lru = Touched(@, m)]
           room == MadeRoom(g.lru, m, cfg.vram)
           evicted == freeWeights(g, room)
           full == Touched(room, m)
           tracked == freeWeights(evicted, Enforced(full, g.caps))
<1>0. List(g.lru) /\ Device(e.gpu) /\ e.gpu.caps = g.caps
  BY EnsureKeeps DEF Device
<1>1. CASE m \in OnDevice(g.lru)
  <2>1. e.gpu = touched
    BY <1>1 DEF Ensure
  <2>2. e.gpu.lru = Touched(g.lru, m)
    BY <2>1 DEF Device, Fields
  <2> QED BY <1>0, <1>1, <2>2, TouchedPart, PartAccounts
<1>2. List(room) /\ PartOf(room, g.lru)
  BY <1>0, EnforcedPart, EnforcedKeeps DEF MadeRoom
<1>3. Device(evicted) /\ evicted.lru = room /\ evicted.caps = g.caps
  BY <1>2, FreeKeeps
<1>4. CASE e.gpu = evicted
  BY <1>0, <1>2, <1>3, <1>4, PartAccounts
<1>5. CASE m \notin OnDevice(g.lru) /\ Fits(room, m, cfg.vram) /\ e.gpu = tracked
  <2>1. m \notin OnDevice(room)
    BY <1>2, <1>5 DEF PartOf, From, OnDevice
  <2>2. /\ Bytes(full) <= Bytes(room) + Size(m) /\ (Distinct(room) => Distinct(full))
        /\ List(full)
    BY <1>2, <2>1, TouchedAdds, TouchedKeeps
  <2>3. /\ List(Enforced(full, g.caps)) /\ PartOf(Enforced(full, g.caps), full)
    BY <2>2, EnforcedPart, EnforcedKeeps
  <2>4. tracked.lru = Enforced(full, g.caps)
    BY <1>3, <2>3, FreeKeeps
  <2> HIDE DEF tracked, full, room
  <2>5. Distinct(room)
    BY <1>0, <1>2, PartsCount DEF Accounts
  <2>6. Distinct(e.gpu.lru) /\ Bytes(e.gpu.lru) <= Bytes(full)
    BY <1>5, <2>2, <2>3, <2>4, <2>5, PartsCount
  <2>7. Bytes(e.gpu.lru) \in Nat /\ Bytes(full) \in Nat /\ Bytes(room) \in Nat /\ Size(m) \in {1, 2} /\ cfg.vram \in Nat
    BY <1>2, <1>5, <2>2, <2>3, <2>4, BytesAre, SizesAssumption DEF Size, ConfigsAssumption
  <2>8. Bytes(e.gpu.lru) <= cfg.vram
    BY <1>5, <2>2, <2>6, <2>7 DEF Fits
  <2>9. g.caps.entries > 0 => Len(e.gpu.lru) <= Larger(g.caps.entries, weightProtect)
    BY <1>5, <2>2, <2>4, EnforcedCaps DEF Accounts
  <2> QED BY <1>0, <2>6, <2>8, <2>9 DEF Accounts
<1>6. CASE e.gpu = g
  BY <1>6
<1>7. CASE m \notin OnDevice(g.lru)
  <2> HIDE DEF evicted, tracked, room
  <2>1. e.gpu \in {evicted, g} \/ (Fits(room, m, cfg.vram) /\ e.gpu = tracked)
    BY <1>7 DEF Ensure, tracked, room, evicted
  <2> QED BY <1>4, <1>5, <1>6, <1>7, <2>1
<1> QED BY <1>1, <1>7

\* Where there is memory for what is protected and one matrix more, an upload
\* fails only when something goes wrong.
LEMMA EnsureSucceeds ==
  ASSUME cfg \in Configs, Roomy, NEW g, Device(g), Accounts(g), NEW m, NEW e \in Ensure(g, m, cfg.vram),
         e.cost = None
  PROVE  e.rc = "ok"
<1> DEFINE caps == [entries |-> 0, bytes |-> cfg.vram - Size(m)]
           room == MadeRoom(g.lru, m, cfg.vram)
<1>0. List(g.lru) /\ Size(m) \in {1, 2} /\ cfg.vram \in Nat /\ weightProtect \in Nat /\ weightProtect >= 7
  BY SizesAssumption, ProtectAssumption DEF Device, Size, ConfigsAssumption
<1>1. List(room) /\ Len(room) \in Kept(g.lru, caps) /\ room = SubSeq(g.lru, 1, Len(room))
  <2>1. room = Enforced(g.lru, caps)
    BY DEF MadeRoom
  <2> QED BY <1>0, <2>1, EnforcedPart, EnforcedKeeps
<1>2. Len(room) <= weightProtect \/ ~OverCaps(room, caps)
  BY <1>1 DEF Kept
<1>3. Bytes(room) \in Nat /\ Bytes(room) <= 2 * Len(room) /\ Len(room) \in Nat
  BY <1>1, BytesAre
<1> HIDE DEF room
<1>4. Fits(room, m, cfg.vram)
  <2>1. caps.bytes = cfg.vram - Size(m) /\ caps.bytes > 0
    BY <1>0 DEF Roomy
  <2>2. ~OverCaps(room, caps) => Bytes(room) <= cfg.vram - Size(m)
    <3> HIDE DEF caps
    <3> QED BY <1>0, <1>3, <2>1 DEF OverCaps
  <2> HIDE DEF caps
  <2>3. CASE Len(room) <= weightProtect
    BY <1>0, <1>3, <2>3 DEF Roomy, Fits
  <2>4. CASE ~OverCaps(room, caps)
    BY <1>0, <1>3, <2>2, <2>4 DEF Fits
  <2> QED BY <1>2, <2>3, <2>4
<1> QED BY <1>4 DEF Ensure, room, None

\* So do explicit evictions and a new cap.
LEMMA EvictAccounts ==
  ASSUME cfg \in Configs, NEW g, Device(g), Accounts(g), NEW l, NEW m,
         NEW h \in {EvictMatricesWithPrefix(g, l), EvictQuantMatrix(g, m),
                    SetWeightCacheLimits(g, [g.caps EXCEPT !.entries = 1])}
  PROVE  Accounts(h)
<1>0. List(g.lru)
  BY DEF Device
<1>1. CASE h = EvictMatricesWithPrefix(g, l)
  <2> DEFINE kept == {i \in DOMAIN g.lru : g.lru[i][1] # l}
             nth(n) == CHOOSE i \in kept : Cardinality({j \in kept : j <= i}) = n
             rest == [n \in 1..Cardinality(kept) |-> g.lru[nth(n)]]
  <2>1. h = freeWeights(g, rest)
    BY <1>1 DEF EvictMatricesWithPrefix
  <2>2. kept \in SUBSET DOMAIN g.lru
    OBVIOUS
  <2> HIDE DEF kept
  <2>3. List(rest) /\ PartOf(rest, g.lru)
    BY <1>0, <2>2, SelectedPart
  <2> HIDE DEF rest
  <2> QED BY <2>1, <2>3, FreeKeeps, PartAccounts
<1>2. CASE h = EvictQuantMatrix(g, m)
  <2>1. List(Without(g.lru, m)) /\ PartOf(Without(g.lru, m), g.lru)
    BY <1>0, WithoutPart
  <2> QED BY <1>2, <2>1, FreeKeeps, PartAccounts DEF EvictQuantMatrix
<1>3. CASE h = SetWeightCacheLimits(g, [g.caps EXCEPT !.entries = 1])
  <2> DEFINE caps == [g.caps EXCEPT !.entries = 1]
             capped == [g EXCEPT !.caps = caps]
             rest == Enforced(g.lru, caps)
  <2>1. DOMAIN caps = {"entries", "bytes"} /\ caps.entries = 1
    BY DEF Accounts
  <2>2. Device(capped) /\ capped.caps = caps /\ capped.lru = g.lru
    BY DEF Device, Fields
  <2>3. h = freeWeights(capped, rest)
    BY <1>3 DEF SetWeightCacheLimits
  <2> HIDE DEF caps, capped
  <2>4. List(rest) /\ PartOf(rest, g.lru) /\ Len(rest) <= Larger(caps.entries, weightProtect)
    BY <1>0, <2>1, EnforcedPart, EnforcedKeeps, EnforcedCaps
  <2> HIDE DEF rest
  <2>5. Device(h) /\ h.lru = rest /\ h.caps = caps
    BY <2>2, <2>3, <2>4, FreeKeeps
  <2>6. Distinct(h.lru) /\ Bytes(h.lru) <= Bytes(g.lru)
    BY <1>0, <2>4, <2>5, PartsCount DEF Accounts
  <2>7. Bytes(h.lru) \in Nat /\ Bytes(g.lru) \in Nat /\ cfg.vram \in Nat
    BY <1>0, <2>4, <2>5, BytesAre, SizesAssumption DEF ConfigsAssumption
  <2>8. Bytes(h.lru) <= cfg.vram
    BY <2>6, <2>7 DEF Accounts
  <2> QED BY <2>1, <2>4, <2>5, <2>6, <2>8 DEF Accounts
<1> QED BY <1>1, <1>2, <1>3

\* The books of all devices.
AccountsInv == \A d \in Devices : Accounts(gpu[d])

\* A step after which every device has its matrices and caps.
LEMMA AccountsStay ==
  ASSUME AccountsInv, cfg' = cfg, \A d \in Devices : gpu'[d].lru = gpu[d].lru /\ gpu'[d].caps = gpu[d].caps
  PROVE  AccountsInv'
BY DEF AccountsInv, Accounts, Devices

\* A step that changes one device.
LEMMA AccountsOne ==
  ASSUME AccountsInv, IInv, cfg' = cfg, NEW d \in Devices, NEW h, Accounts(h), gpu' = [gpu EXCEPT ![d] = h]
  PROVE  AccountsInv'
<1>1. \A x \in Devices : gpu'[x] = IF x = d THEN h ELSE gpu[x]
  BY DEF IInv, CacheInv, Machine
<1> QED BY <1>1 DEF AccountsInv, Accounts, Devices

\* Opening an operation changes the caches of no device.
LEMMA IssueUnmoved ==
  ASSUME IInv, Issue
  PROVE  Unmoved(gpu')
<1> DEFINE c == CallOf(run.step)
           where == Written(run.step)
<1>1. PICK a \in Reach([kind |-> c.kind, layer |-> where.layer]) :
        LET o == Opened(c, where, a.multi.cur)
        IN  gpu' \in {a.gpu, [a.gpu EXCEPT ![o.dev] = Entered(a.gpu[o.dev], o)]}
  BY DEF Issue
<1> DEFINE o == Opened(c, where, a.multi.cur)
           cur == a.multi.cur
<1>2. o.dev = cur
  BY OpenedIs
<1>3. Unmoved(a.gpu) /\ cur \in Devices
  BY ReachMoves DEF Moved, IInv, CacheInv, Split
<1>4. Same(gpu[cur], Entered(a.gpu[cur], o))
  BY <1>3, SameCleared DEF Unmoved, Entered
<1> DEFINE devices == a.gpu
           h == Entered(a.gpu[cur], o)
<1>5. gpu' \in {devices, [devices EXCEPT ![cur] = h]}
  BY <1>1, <1>2
<1> HIDE DEF o, cur, devices, h
<1>6. Unmoved(devices) /\ cur \in Devices /\ Same(gpu[cur], h)
  BY <1>3, <1>4 DEF devices, h
<1> QED BY <1>5, <1>6 DEF Unmoved

\* Every step keeps the books.
LEMMA NextAccounts ==
  ASSUME IInv, AccountsInv, [Next]_vars
  PROVE  AccountsInv'
<1>0. cfg \in Configs /\ \A d \in Devices : Device(gpu[d]) /\ Live(gpu[d]) /\ Accounts(gpu[d])
  BY DEF IInv, CacheInv, Machine, AccountsInv
<1>1. CASE UNCHANGED <<gpu, cfg>>
  BY <1>1, AccountsStay
<1>2. CASE Issue
  BY <1>2, IssueUnmoved, AccountsStay DEF Unmoved, Same, Issue
<1>3. CASE Upload
  <2>1. op # NoOp /\ op.rc = "open" /\ cfg' = cfg
    BY <1>3 DEF Upload
  <2>2. PICK e \in Ensure(gpu[op.dev], Head(op.todo), cfg.vram) : gpu' = [gpu EXCEPT ![op.dev] = e.gpu]
    BY <1>3 DEF Upload
  <2>3. op.dev \in Devices
    BY <2>1 DEF IInv, CacheInv, Machine, Split
  <2>4. Accounts(e.gpu)
    BY <1>0, <2>3, EnsureAccounts
  <2> QED BY <2>1, <2>2, <2>3, <2>4, AccountsOne
<1>4. CASE Launch
  <2>1. op # NoOp /\ op.rc = "open" /\ cfg' = cfg
    BY <1>4 DEF Launch
  <2>2. PICK l \in Launches(gpu[op.dev], op) : gpu' = [gpu EXCEPT ![op.dev] = l.gpu]
    BY <1>4 DEF Launch
  <2>3. op.dev \in Devices /\ op.kind \in Kinds /\ op.quant \in BOOLEAN
    BY <2>1, SizesAssumption DEF IInv, CacheInv, HiddenInv, Machine, Split, OfStep, ConfigsAssumption
  <2>4. l.gpu.lru = gpu[op.dev].lru /\ l.gpu.caps = gpu[op.dev].caps
    BY <1>0, <2>3, LaunchOutcome DEF Outcome
  <2>5. Accounts(l.gpu)
    BY <1>0, <2>3, <2>4 DEF Accounts
  <2> QED BY <2>1, <2>2, <2>3, <2>5, AccountsOne
<1>5. CASE Evict
  <2>1. cfg' = cfg
    BY <1>5 DEF Evict
  <2>2. PICK d \in Devices : \E g \in {EvictMatricesWithPrefix(gpu[d], l) : l \in 0..NumLayers-1}
                \cup {EvictQuantMatrix(gpu[d], m) : m \in OnDevice(gpu[d].lru)}
                \cup {SetWeightCacheLimits(gpu[d], [gpu[d].caps EXCEPT !.entries = 1])} :
         gpu' = [gpu EXCEPT ![d] = g]
    BY <1>5 DEF Evict
  <2>3. PICK g, l, m : /\ gpu' = [gpu EXCEPT ![d] = g]
                       /\ g \in {EvictMatricesWithPrefix(gpu[d], l), EvictQuantMatrix(gpu[d], m),
                                 SetWeightCacheLimits(gpu[d], [gpu[d].caps EXCEPT !.entries = 1])}
    BY <2>2
  <2>4. Accounts(g)
    BY <1>0, <2>3, EvictAccounts
  <2> QED BY <2>1, <2>3, <2>4, AccountsOne
<1>6. CASE (\E n \in {1, cfg.nBatch} : Forward(n)) \/ ResetCache \/ Return \/ HostComputes
  BY <1>1, <1>6 DEF Forward, ResetCache, Return, HostComputes
<1>7. CASE UNCHANGED vars
  BY <1>1, <1>7 DEF vars
<1> QED BY <1>2, <1>3, <1>4, <1>5, <1>6, <1>7 DEF Next

\* A device opens with an empty cache and the caps of the configuration.
LEMMA InitAccounts == ASSUME Init PROVE AccountsInv
<1>1. PICK c \in Configs : cfg = c /\ gpu = [d \in 0..c.devices-1 |-> [OpenDevice EXCEPT !.caps = c.caps]]
  BY DEF Init
<1>2. cfg.vram \in Nat /\ cfg.caps \in [entries : Nat, bytes : Nat] /\ weightProtect \in Nat
  BY <1>1, SizesAssumption, ProtectAssumption DEF ConfigsAssumption
<1> DEFINE g == [OpenDevice EXCEPT !.caps = cfg.caps]
<1>3. g.lru = <<>> /\ g.caps = cfg.caps
  BY DEF OpenDevice
<1>4. List(<<>>) /\ Len(<<>>) = 0
  BY DEF List
<1>5. Bytes(<<>>) = 0
  <2>1. Bytes(<<>>) \in Nat /\ Bytes(<<>>) <= 2 * 0
    BY <1>4, BytesAre
  <2> QED BY <2>1
<1> HIDE DEF g
<1>6. Accounts(g)
  BY <1>2, <1>3, <1>4, <1>5 DEF Accounts, Distinct, Larger
<1> QED BY <1>1, <1>6 DEF AccountsInv, Devices, g

\* The books of every device are right after every step.
LEMMA AccountsInvariant == Spec => []AccountsInv
<1>1. Init => AccountsInv
  BY InitAccounts
<1>2. IInv /\ AccountsInv /\ [Next]_vars => AccountsInv'
  BY NextAccounts
<1> QED BY <1>1, <1>2, Invariant, PTL DEF Spec

\* No device holds a matrix twice, more than its memory, or more than its cap
\* and the protected matrices.
THEOREM CapsAreRespected == Spec => []CapsRespected
<1>1. IInv /\ AccountsInv => CapsRespected
  BY DistinctCount DEF IInv, CacheInv, Machine, Device, AccountsInv, Accounts, CapsRespected
<1> QED BY <1>1, Invariant, AccountsInvariant, PTL

-----------------------------------------------------------------------------
(* There is always room: a token that nothing goes wrong for does not fail.  *)

\* A vector that was computed from a token.
Vector(c) == c # Junk /\ "at" \in DOMAIN c
Hidden(h) == h.active => Vector(h.resid)

\* What the device has when the call of a step comes, and when it is done.
Fit(h, step) ==
  /\ Hidden(h)
  /\ step \in {"recover", "sync"} => h.active
  /\ step \in {"rattnffn", "rattnout"} => h.skipAttn
  /\ step \in {"rrouter", "rexpert", "rexpert2"} => Vector(h.moe)
Done(h, step) ==
  /\ Hidden(h)
  /\ step = "rqkv" => h.skipAttn
  /\ step \in {"rattnout", "rrouter", "rexpert"} => Vector(h.moe)

\* The kinds of the calls that a resident token makes, and of no other.
CallIs(step, kind, buf) ==
  /\ kind = "gather" <=> step = "gather"
  /\ step = "rqkv" <=> kind = "qkv" /\ buf = None
  /\ kind = "attnffn" <=> step \in {"rattnffn", "hattnffn"}
  /\ step = "rattnffn" <=> kind = "attnffn" /\ buf = None
  /\ kind = "attnout" <=> step = "rattnout"
  /\ kind = "router" <=> step = "rrouter"
  /\ kind = "expert" <=> step \in {"rexpert", "rexpert2"}
  /\ kind = "logits" <=> step \in {"rlogits", "hlogits"}
  /\ kind = "lnresid" <=> step = "rln"
  /\ kind = "residadd" <=> step \in {"radd", "radd2"}
  /\ kind = "download" <=> step \in {"recover", "sync", "release"}
Made ==
  op # NoOp =>
    /\ CallIs(run.step, op.kind, op.buf)
    /\ op.kind = "upload" => Vector(op.content)
    /\ op.kind = "qkv" /\ op.buf = None /\ op.rc \in {"open", "ok"} => cfg.quant

\* Only a model that is quantised leaves the host without rows, but for phi2.
Flags == {"residency", "logitsOnGPU", "moeGPU", "stale", "hollow"}
FlagsInv == DOMAIN model = Flags /\ (~cfg.quant /\ cfg.family # "phi2" => ~model.hollow)

\* The steps that a token takes with its hidden state resident.
ResidentOnly == ResidentSteps \ {"gather", "upload", "recover"}
Going(step, resident) ==
  /\ step \notin {"failed", "rebuild"}
  /\ step \in ResidentOnly => resident
  /\ step \in {"rattnffn", "rattnout"} => cfg.quant
  /\ step = "rqkv" => cfg.family # "phi2"

\* While nothing goes wrong every call finds what it needs, and the only ones
\* that fail are those the model is prepared for.
Here == gpu[multi.cur]
Refused == run.step \in {"gather", "release"} \/ (run.step = "rqkv" /\ ~cfg.quant /\ op.rc = "failed")
Smooth ==
  /\ Going(run.step, run.resident)
  /\ op = NoOp \/ op.rc = "open" => Fit(Here, run.step)
  /\ op # NoOp /\ op.rc = "ok" => Done(Here, run.step)
  /\ op # NoOp /\ op.rc \notin {"open", "ok"} => Hidden(Here) /\ Refused
RoomInv == FlagsInv /\ Made /\ (Faultless /\ Roomy => Smooth)

\* What the stages of a layer make of a vector is a vector.
LEMMA VectorsStay ==
  /\ \A tok, layer : Vector(Content(tok, layer, "x"))
  /\ \A c : Vector(c) => Vector(NextLayer(c)) /\ \A s \in {"xa", "hf", "part"} : Vector(At(c, s))
<1>1. ASSUME NEW tok, NEW layer, NEW s, s # "junk" PROVE Vector(Content(tok, layer, s))
  BY <1>1 DEF Vector, Content, Junk
<1>2. ASSUME NEW c, Vector(c), NEW s \in {"xa", "hf", "part"} PROVE Vector(At(c, s))
  <2>1. At(c, s) = [c EXCEPT !.at = s] /\ [c EXCEPT !.at = s].at = s /\ "at" \in DOMAIN [c EXCEPT !.at = s]
    BY <1>2 DEF Vector, At
  <2>2. Junk.at = "junk"
    BY DEF Junk, Content
  <2> QED BY <2>1, <2>2 DEF Vector
<1>3. ASSUME NEW c, Vector(c) PROVE Vector(NextLayer(c))
  BY <1>1, <1>3 DEF Vector, NextLayer
<1> QED BY <1>1, <1>2, <1>3

\* The kind and the buffer of each step's call.
LEMMA StepKinds ==
  /\ run.step \in {"q", "k", "v", "wo", "gate", "up", "down", "router"} => CallOf(run.step).kind \in {"gemm", "matmul"}
  /\ run.step = "gather" => CallOf(run.step).kind = "gather"
  /\ run.step \in {"upload", "hupload"} => CallOf(run.step).kind = "upload"
  /\ run.step = "rqkv" => CallOf(run.step).kind = "qkv" /\ CallOf(run.step).buf = None
  /\ run.step = "rattnffn" => CallOf(run.step).kind = "attnffn" /\ CallOf(run.step).buf = None
  /\ run.step = "hattnffn" => CallOf(run.step).kind = "attnffn" /\ CallOf(run.step).buf = "x"
  /\ run.step = "rattnout" => CallOf(run.step).kind = "attnout"
  /\ run.step = "rrouter" => CallOf(run.step).kind = "router"
  /\ run.step \in {"rexpert", "rexpert2"} => CallOf(run.step).kind = "expert"
  /\ run.step = "rln" => CallOf(run.step).kind = "lnresid"
  /\ run.step \in {"radd", "radd2"} => CallOf(run.step).kind = "residadd"
  /\ run.step \in {"recover", "sync", "release"} => CallOf(run.step).kind = "download"
  /\ run.step \in {"rlogits", "hlogits"} => CallOf(run.step).kind = "logits"
  /\ run.step = "hqkv" => CallOf(run.step).kind = "qkv" /\ CallOf(run.step).buf = "h"
  /\ run.step \in {"append", "rebuild"} => CallOf(run.step).kind = "append"
  /\ run.step = "scores" => CallOf(run.step).kind = "scores"
  /\ run.step \in {"ffn", "expert", "expert2"} => CallOf(run.step).kind = "ffn"
  /\ run.step = "act" => CallOf(run.step).kind = "act"
<1>1. ASSUME NEW kind, NEW uses, NEW buf, Calls(kind, uses, buf)
      PROVE  CallOf(run.step).kind = kind /\ CallOf(run.step).buf = buf
  BY <1>1 DEF Calls, Call
<1>2. ASSUME NEW name, NEW buf, CallsProduct(name, buf)
      PROVE  CallOf(run.step).kind \in {"gemm", "matmul"}
  BY <1>2 DEF CallsProduct, Product, Call
<1>3. CASE run.step \in ResidentSteps
  BY <1>1, <1>3, ResidentCalls DEF ResidentSteps
<1>4. CASE run.step \notin ResidentSteps
  BY <1>1, <1>2, <1>4, HostCalls DEF ResidentSteps
<1> QED BY <1>3, <1>4

\* So each step makes the calls of its kind.
LEMMA StepCallIs ==
  ASSUME run.step \in ResidentSteps \cup HostSteps
  PROVE  CallIs(run.step, CallOf(run.step).kind, CallOf(run.step).buf)
<1> DEFINE c == CallOf(run.step)
<1> HIDE DEF c
<1>1. CASE run.step \in {"q", "k", "v", "wo", "gate", "up", "down", "router"}
  <2>1. c.kind \in {"gemm", "matmul"}
    BY <1>1, StepKinds DEF c
  <2> QED BY <1>1, <2>1 DEF CallIs, c
<1>2. CASE run.step \in {"append", "rebuild", "scores", "ffn", "expert", "expert2", "act", "upload", "hupload"}
  <2>1. c.kind \in {"append", "scores", "ffn", "act", "upload"}
    BY <1>2, StepKinds DEF c
  <2> QED BY <1>2, <2>1 DEF CallIs, c
<1>3. CASE run.step \in {"rqkv", "hqkv"}
  <2>1. c.kind = "qkv" /\ (run.step = "rqkv" <=> c.buf = None)
    BY <1>3, StepKinds DEF c, None
  <2> QED BY <1>3, <2>1 DEF CallIs, c
<1>4. CASE run.step \in {"rattnffn", "hattnffn"}
  <2>1. c.kind = "attnffn" /\ (run.step = "rattnffn" <=> c.buf = None)
    BY <1>4, StepKinds DEF c, None
  <2> QED BY <1>4, <2>1 DEF CallIs, c
<1>5. CASE run.step \in {"gather", "rattnout", "rrouter", "rexpert", "rexpert2", "rln"}
  <2>1. /\ run.step = "gather" => c.kind = "gather"
        /\ run.step = "rattnout" => c.kind = "attnout"
        /\ run.step = "rrouter" => c.kind = "router"
        /\ run.step \in {"rexpert", "rexpert2"} => c.kind = "expert"
        /\ run.step = "rln" => c.kind = "lnresid"
    BY <1>5, StepKinds DEF c
  <2> QED BY <1>5, <2>1 DEF CallIs, c
<1>6. CASE run.step \in {"radd", "radd2", "recover", "sync", "release", "rlogits", "hlogits"}
  <2>1. /\ run.step \in {"radd", "radd2"} => c.kind = "residadd"
        /\ run.step \in {"recover", "sync", "release"} => c.kind = "download"
        /\ run.step \in {"rlogits", "hlogits"} => c.kind = "logits"
    BY <1>6, StepKinds DEF c
  <2> QED BY <1>6, <2>1 DEF CallIs, c
<1> QED BY <1>1, <1>2, <1>3, <1>4, <1>5, <1>6 DEF ResidentSteps, HostSteps

\* What is uploaded is the hidden state.
LEMMA UploadsVector ==
  ASSUME run.step \in {"upload", "hupload"}
  PROVE  Vector(CallOf(run.step).want.in)
<1>1. CASE run.step = "upload"
  <2>1. CallOf(run.step) = Call("upload", <<>>, "x", Input(Of("x")))
    BY <1>1, Zenon DEF CallOf, ResidentSteps, ResidentCall
  <2> QED BY <2>1, VectorsStay DEF Call, Input, Of
<1>2. CASE run.step = "hupload"
  <2>1. CallOf(run.step) = Call("upload", <<>>, "x", Input(Final))
    BY <1>2, Zenon DEF CallOf, ResidentSteps, HostCall
  <2> QED BY <2>1, VectorsStay DEF Call, Input, Final
<1> QED BY <1>1, <1>2

-----------------------------------------------------------------------------
(* What a launch does to the hidden state when nothing goes wrong.           *)

\* The outcomes of a launch, by its kind.
LEMMA LaunchIs ==
  ASSUME NEW g, NEW o, o.kind \in Kinds, NEW l \in Launches(g, o)
  PROVE  /\ o.kind = "matmul" => l \in MatMulVecCachedInto(g, o)
         /\ o.kind = "ffn" => l \in FFNSwiGLUCached(g, o)
         /\ o.kind = "gemm" => l \in MatMulMatCachedInto(g, o)
         /\ o.kind = "qkv" => l \in QKVRoPEAttentionQuantCached(g, o) \cup QKVRoPEAttentionCached(g, o)
         /\ o.kind = "attnffn" => l \in (IF o.quant THEN AttnFFNResidualQuantCached(g, o) ELSE AttnFFNResidualCached(g, o))
         /\ o.kind = "act" => l \in GELUInPlace(g, o)
         /\ o.kind = "append" => l \in KVCacheAppendN(g, o)
         /\ o.kind = "scores" => l \in AttentionScoresKV(g, o)
         /\ o.kind = "attnout" => l \in AttnOutResidualNorm(g, o)
         /\ o.kind = "router" => l \in MatMulVecFromMoEHidden(g, o)
         /\ o.kind = "expert" => l \in FFNSwiGLUMoEAccumulate(g, o)
         /\ o.kind = "upload" => l \in HiddenUpload(g, o)
         /\ o.kind = "download" => l \in HiddenDownload(g, o)
         /\ o.kind = "logits" => l \in LogitsFromDevice(g, o)
         /\ o.kind = "lnresid" => l \in LayerNormResidInto(g, o)
         /\ o.kind = "residadd" => l \in ResidAdd(g, o)
<1>1. CASE o.kind \in {"matmul", "ffn", "gemm", "qkv", "attnffn"}
  <2>1. Launches(g, o) = IF o.quant THEN OfQuant(g, o) ELSE OfFloats(g, o)
    BY <1>1, Zenon DEF Launches
  <2>2. o.kind = "matmul" => OfQuant(g, o) = MatMulVecCachedInto(g, o) /\ OfFloats(g, o) = MatMulVecCachedInto(g, o)
    BY Zenon DEF OfQuant, OfFloats, matMulVecQuantCachedInto
  <2>3. o.kind = "ffn" => OfQuant(g, o) = FFNSwiGLUCached(g, o) /\ OfFloats(g, o) = FFNSwiGLUCached(g, o)
    BY Zenon DEF OfQuant, OfFloats, ffnGatedQuantCached
  <2>4. o.kind = "gemm" => OfQuant(g, o) = MatMulMatCachedInto(g, o) /\ OfFloats(g, o) = MatMulMatCachedInto(g, o)
    BY Zenon DEF OfQuant, OfFloats, matMulMatQuantCachedInto
  <2>5. o.kind = "qkv" => OfQuant(g, o) = QKVRoPEAttentionQuantCached(g, o) /\ OfFloats(g, o) = QKVRoPEAttentionCached(g, o)
    BY Zenon DEF OfQuant, OfFloats
  <2>6. o.kind = "attnffn" => OfQuant(g, o) = AttnFFNResidualQuantCached(g, o) /\ OfFloats(g, o) = AttnFFNResidualCached(g, o)
    BY Zenon DEF OfQuant, OfFloats
  <2> QED BY <1>1, <2>1, <2>2, <2>3, <2>4, <2>5, <2>6
<1>2. o.kind = "act" => Launches(g, o) = GELUInPlace(g, o)
  BY Zenon DEF Launches
<1>3. o.kind = "append" => Launches(g, o) = KVCacheAppendN(g, o)
  BY Zenon DEF Launches
<1>4. o.kind = "scores" => Launches(g, o) = AttentionScoresKV(g, o)
  BY Zenon DEF Launches
<1>5. o.kind = "attnout" => Launches(g, o) = AttnOutResidualNorm(g, o)
  BY Zenon DEF Launches
<1>6. o.kind = "router" => Launches(g, o) = MatMulVecFromMoEHidden(g, o)
  BY Zenon DEF Launches
<1>7. o.kind = "expert" => Launches(g, o) = FFNSwiGLUMoEAccumulate(g, o)
  BY Zenon DEF Launches
<1>8. o.kind = "upload" => Launches(g, o) = HiddenUpload(g, o)
  BY Zenon DEF Launches
<1>9. o.kind = "download" => Launches(g, o) = HiddenDownload(g, o)
  BY Zenon DEF Launches
<1>10. o.kind = "logits" => Launches(g, o) = LogitsFromDevice(g, o)
  BY Zenon DEF Launches
<1>11. o.kind = "lnresid" => Launches(g, o) = LayerNormResidInto(g, o)
  BY Zenon DEF Launches
<1>12. o.kind = "residadd" => Launches(g, o) = ResidAdd(g, o)
  BY Zenon DEF Launches
<1> QED BY <1>1, <1>2, <1>3, <1>4, <1>5, <1>6, <1>7, <1>8, <1>9, <1>10, <1>11, <1>12

\* A call that costs no fault, of those that can fail otherwise: it succeeded.
LEMMA Costless ==
  ASSUME NEW o, NEW read, NEW h, NEW l, l.cost = None,
         l = Ok(h, o, read) \/ \E k : l \in {Fails(k, "launch"), Fails(k, "pool"), FailsKV(k)}
  PROVE  l = Ok(h, o, read)
<1>1. \A k : /\ Fails(k, "launch").cost = "launch" /\ Fails(k, "pool").cost = "pool"
             /\ FailsKV(k).cost = "kv"
  BY DEF Fails, FailsKV
<1>2. \A k : l \notin {Fails(k, "launch"), Fails(k, "pool"), FailsKV(k)}
  BY <1>1 DEF None
<1> QED BY <1>2

\* A call that succeeded leaves what it made of the device.
LEMMA OkLeaves ==
  ASSUME NEW g, NEW h, Device(h), NEW o, NEW read
  PROVE  Ok(h, o, read).rc = "ok" /\ SameHidden(h, Ok(h, o, read).gpu)
BY DEF Device, Fields, Ok, SameHidden

\* Products, attention and the operations on vectors of the host do not touch it.
LEMMA VectorSmooth ==
  ASSUME NEW g, Device(g), Hidden(g), NEW o, NEW l, l.cost = None,
         l \in MatMulVecCachedInto(g, o) \cup FFNSwiGLUCached(g, o) \cup MatMulMatCachedInto(g, o)
                 \cup GELUInPlace(g, o) \cup KVCacheAppendN(g, o) \cup AttentionScoresKV(g, o)
  PROVE  l.rc = "ok" /\ Hidden(l.gpu)
<1> DEFINE sent == [[g EXCEPT !.lastVec = o.buf] EXCEPT !.vec = Sent(g, o)]
           stored == Stored(g, o, o.content)
           used == Overwritten(g)
<1>1. \A h \in {g, sent, stored, used} : Device(h) /\ h.active = g.active /\ h.resid = g.resid
  BY DEF Device, Fields, Stored, Overwritten
<1>2. \E h \in {g, sent, stored, used} : \E read : l = Ok(h, o, read)
  <2>1. \E h \in {g, sent, stored, used} : \E read :
          l = Ok(h, o, read) \/ \E k : l \in {Fails(k, "launch"), Fails(k, "pool"), FailsKV(k)}
    BY DEF MatMulVecCachedInto, FFNSwiGLUCached, MatMulMatCachedInto, GELUInPlace, KVCacheAppendN,
       AttentionScoresKV
  <2> HIDE DEF sent, stored, used
  <2> QED BY <2>1, Costless
<1> HIDE DEF sent, stored, used
<1>3. PICK h, read : h \in {g, sent, stored, used} /\ l = Ok(h, o, read)
  BY <1>2
<1>4. l.rc = "ok" /\ SameHidden(h, l.gpu)
  BY <1>1, <1>3, OkLeaves
<1> QED BY <1>1, <1>3, <1>4 DEF SameHidden, Hidden

\* The fused attention leaves its vector where the output projection finds it.
LEMMA AttentionSmooth ==
  ASSUME NEW g, Device(g), Hidden(g), NEW o, NEW l, l.cost = None,
         l \in QKVRoPEAttentionCached(g, o) \cup QKVRoPEAttentionQuantCached(g, o)
  PROVE  l.rc = "ok" /\ Hidden(l.gpu) /\ l.gpu.skipAttn
<1>1. PICK read : l \in Attends(g, o, read)
  BY DEF QKVRoPEAttentionCached, QKVRoPEAttentionQuantCached
<1> DEFINE stored == Stored(g, o, At(read, "h"))
           used == Overwritten(stored)
           done == [used EXCEPT !.vec = At(read, "attn"), !.skipAttn = TRUE]
           what == [Input(read) EXCEPT !.rows = Rows(stored, o)]
<1>2. Device(stored) /\ stored.active = g.active /\ stored.resid = g.resid
  BY DEF Device, Fields, Stored
<1>3. Device(used) /\ used.active = g.active /\ used.resid = g.resid
  BY <1>2 DEF Device, Fields, Overwritten
<1>4. Device(done) /\ done.active = g.active /\ done.resid = g.resid /\ done.skipAttn
  BY <1>3 DEF Device, Fields
<1>5. l \in {Ok(done, o, what), Fails(Overwritten(g), "launch"), FailsKV(Overwritten(g))}
  BY <1>1 DEF Attends
<1> HIDE DEF done, what
<1>6. l = Ok(done, o, what)
  BY <1>5, Costless
<1> QED BY <1>4, <1>6, OkLeaves DEF SameHidden, Hidden

\* The fused projection and FFN take the residual to the next layer.
LEMMA ProjectionSmooth ==
  ASSUME NEW g, Device(g), Hidden(g), NEW o, Resident(g, o) => g.skipAttn, NEW l, l.cost = None,
         l \in AttnFFNResidualQuantCached(g, o)
  PROVE  l.rc = "ok" /\ Hidden(l.gpu)
<1> DEFINE used == Overwritten([g EXCEPT !.skipAttn = FALSE])
           next == IF Resident(g, o) THEN [used EXCEPT !.resid = NextLayer(@)] ELSE used
           read == ReadsAttention(g, o)
<1>1. Device(used) /\ used.active = g.active /\ used.resid = g.resid
  BY DEF Device, Fields, Overwritten
<1>2. Device(next) /\ Hidden(next)
  <2>1. CASE Resident(g, o)
    <3>1. next.active = g.active /\ next.resid = NextLayer(g.resid) /\ Device(next)
      BY <1>1, <2>1 DEF Device, Fields
    <3> HIDE DEF next
    <3> QED BY <3>1, VectorsStay DEF Hidden
  <2>2. CASE ~Resident(g, o)
    BY <1>1, <2>2 DEF Hidden
  <2> QED BY <2>1, <2>2
<1>3. l \in {Ok(next, o, read), Fails(Dirty(g, o), "launch"), Fails(Overwritten(g), "pool")}
  BY DEF AttnFFNResidualQuantCached
<1> HIDE DEF next, read
<1>4. l = Ok(next, o, read)
  BY <1>3, Costless
<1> QED BY <1>2, <1>4, OkLeaves DEF SameHidden, Hidden

\* The output projection leaves the residual, and its norm as the snapshot.
LEMMA OutputSmooth ==
  ASSUME NEW g, Device(g), Hidden(g), NEW o, o.buf = None, g.active, g.skipAttn, NEW l, l.cost = None,
         l \in AttnOutResidualNorm(g, o)
  PROVE  l.rc = "ok" /\ Hidden(l.gpu) /\ Vector(l.gpu.moe)
<1> DEFINE used == Overwritten([g EXCEPT !.skipAttn = FALSE])
           read == ReadsAttention(g, o)
           done == [used EXCEPT !.resid = At(read.in, "xa"), !.moe = At(read.in, "hf"), !.active = TRUE]
<1>1. Resident(g, o) /\ read.in = g.resid /\ Vector(g.resid)
  BY DEF Resident, ReadsAttention, Hidden
<1>2. Device(used)
  BY DEF Device, Fields, Overwritten
<1>3. Device(done) /\ done.resid = At(g.resid, "xa") /\ done.moe = At(g.resid, "hf")
  BY <1>1, <1>2 DEF Device, Fields
<1>4. l \in {Ok(done, o, read), Fails(Dirty(g, o), "launch"), Fails(Overwritten(g), "pool")}
  BY <1>1 DEF AttnOutResidualNorm
<1> HIDE DEF done, read
<1>5. l = Ok(done, o, read)
  BY <1>4, Costless
<1> QED BY <1>1, <1>3, <1>5, OkLeaves, VectorsStay DEF SameHidden, Hidden

\* Router and experts read the snapshot, and an expert adds to the residual.
LEMMA ExpertSmooth ==
  ASSUME NEW g, Device(g), Hidden(g), Vector(g.moe), NEW o, NEW l, l.cost = None,
         \/ l \in MatMulVecFromMoEHidden(g, o)
         \/ g.active /\ l \in FFNSwiGLUMoEAccumulate(g, o)
  PROVE  l.rc = "ok" /\ Hidden(l.gpu) /\ Vector(l.gpu.moe)
<1> DEFINE added == [g EXCEPT !.resid = IF @.at = "xa" THEN At(@, "part") ELSE NextLayer(@)]
           read == [Input(g.resid) EXCEPT !.attn = g.moe]
<1>0. g.moe # Junk
  BY DEF Vector
<1>1. \A h : Device(h) => Device(Overwritten(h)) /\ SameHidden(h, Overwritten(h))
  BY DEF Device, Fields, Overwritten, SameHidden
<1>2. CASE l \in MatMulVecFromMoEHidden(g, o)
  <2>1. l \in {Ok(Overwritten(g), o, Input(g.moe)), Fails(Overwritten(g), "launch")}
    BY <1>0, <1>2 DEF MatMulVecFromMoEHidden
  <2>2. l = Ok(Overwritten(g), o, Input(g.moe))
    BY <2>1, Costless
  <2> QED BY <1>1, <2>2, OkLeaves DEF SameHidden, Hidden
<1>3. CASE g.active /\ l \in FFNSwiGLUMoEAccumulate(g, o)
  <2>1. Device(added) /\ added.moe = g.moe /\ added.resid \in {At(g.resid, "part"), NextLayer(g.resid)}
    BY DEF Device, Fields
  <2>2. Vector(added.resid)
    <3> HIDE DEF added
    <3> QED BY <1>3, <2>1, VectorsStay DEF Hidden
  <2>3. l \in {Ok(Overwritten(added), o, read), Fails(Overwritten([g EXCEPT !.resid = Junk]), "launch"),
               Fails(Overwritten(g), "pool")}
    BY <1>0, <1>3 DEF FFNSwiGLUMoEAccumulate
  <2> HIDE DEF added, read
  <2>4. l = Ok(Overwritten(added), o, read)
    BY <2>3, Costless
  <2> QED BY <1>1, <2>1, <2>2, <2>4, OkLeaves DEF SameHidden, Hidden
<1> QED BY <1>2, <1>3

\* The hidden state is brought to the device, and taken from it.
LEMMA TransferSmooth ==
  ASSUME NEW g, Device(g), Hidden(g), NEW o, NEW l, l.cost = None
  PROVE  /\ Vector(o.content) /\ l \in HiddenUpload(g, o) => l.rc = "ok" /\ Hidden(l.gpu)
         /\ l \in HiddenDownload(g, o) => Hidden(l.gpu) /\ l.rc = (IF g.active THEN "ok" ELSE "failed")
<1> DEFINE there == Activated(g, o.content)
           left == clearResidencyLocked(g)
<1>1. ASSUME Vector(o.content), l \in HiddenUpload(g, o) PROVE l.rc = "ok" /\ Hidden(l.gpu)
  <2>1. l \in {Ok(there, o, Input(o.content)), Fails([g EXCEPT !.active = FALSE], "launch")}
    BY <1>1 DEF HiddenUpload
  <2>2. Device(there) /\ there.resid = o.content
    BY DEF Device, Fields, Activated
  <2> HIDE DEF there
  <2>3. l = Ok(there, o, Input(o.content))
    BY <2>1, Costless
  <2> QED BY <1>1, <2>2, <2>3, OkLeaves DEF SameHidden, Hidden
<1>2. ASSUME g.active, l \in HiddenDownload(g, o) PROVE l.rc = "ok" /\ Hidden(l.gpu)
  <2>1. l \in {Ok(left, o, Input(g.resid)), Fails(left, "launch")}
    BY <1>2 DEF HiddenDownload
  <2>2. Device(left) /\ ~left.active
    BY DEF Device, Fields, clearResidencyLocked
  <2> HIDE DEF left
  <2>3. l = Ok(left, o, Input(g.resid))
    BY <2>1, Costless
  <2> QED BY <1>2, <2>2, <2>3, OkLeaves DEF SameHidden, Hidden
<1>3. ASSUME ~g.active, l \in HiddenDownload(g, o) PROVE l.rc = "failed" /\ Hidden(l.gpu)
  <2>1. l = Fails(g, None)
    BY <1>3 DEF HiddenDownload
  <2> QED BY <1>3, <2>1 DEF Fails
<1> QED BY <1>1, <1>2, <1>3

\* The logits, the norm and the sums of a resident token.
LEMMA ResidentSmooth ==
  ASSUME NEW g, Device(g), Hidden(g), g.active, NEW o, NEW l, l.cost = None,
         l \in LogitsFromDevice(g, o) \cup LayerNormResidInto(g, o) \cup ResidAdd(g, o)
  PROVE  l.rc = "ok" /\ Hidden(l.gpu)
<1> DEFINE used == Overwritten(g)
           normed == [g EXCEPT !.vec = At(g.resid, "h")]
           added == [g EXCEPT !.resid = IF @.at = "x" THEN At(@, "xa") ELSE NextLayer(@)]
<1>1. \A h \in {used, normed} : Device(h) /\ h.resid = g.resid
  BY DEF Device, Fields, Overwritten
<1>2. Device(added) /\ added.resid \in {At(g.resid, "xa"), NextLayer(g.resid)}
  BY DEF Device, Fields
<1>3. \A h \in {used, normed, added} : Device(h) /\ Vector(h.resid)
  <2> HIDE DEF used, normed, added
  <2> QED BY <1>1, <1>2, VectorsStay DEF Hidden
<1>4. \E h \in {used, normed, added} : \E read :
        l = Ok(h, o, read) \/ \E k : l \in {Fails(k, "launch"), Fails(k, "pool"), FailsKV(k)}
  BY DEF LogitsFromDevice, LayerNormResidInto, ResidAdd
<1> HIDE DEF used, normed, added
<1>5. PICK h, read : h \in {used, normed, added} /\ l = Ok(h, o, read)
  BY <1>4, Costless
<1> QED BY <1>3, <1>5, OkLeaves DEF SameHidden, Hidden

\* A launch that finds what it needs succeeds, but for a release of nothing.
LEMMA SmoothLaunch ==
  ASSUME NEW g, Device(g), NEW o, o.kind \in Kinds, NEW step, CallIs(step, o.kind, o.buf), Fit(g, step),
         o.kind = "upload" => Vector(o.content),
         o.kind = "attnffn" /\ o.buf = None => o.quant,
         o.kind = "attnout" => o.buf = None,
         o.kind \in {"attnout", "expert", "logits", "lnresid", "residadd"} => g.active,
         NEW l \in Launches(g, o), l.cost = None
  PROVE  \/ l.rc = "ok" /\ Done(l.gpu, step)
         \/ step = "release" /\ l.rc = "failed" /\ Hidden(l.gpu)
<1>0. Hidden(g)
  BY DEF Fit
<1>1. CASE o.kind \in {"matmul", "ffn", "gemm", "act", "append", "scores"}
  <2>1. l.rc = "ok" /\ Hidden(l.gpu)
    BY <1>0, <1>1, LaunchIs, VectorSmooth
  <2> QED BY <1>1, <2>1 DEF Done, CallIs
<1>2. CASE o.kind = "qkv"
  <2>1. l.rc = "ok" /\ Hidden(l.gpu) /\ l.gpu.skipAttn
    BY <1>0, <1>2, LaunchIs, AttentionSmooth
  <2> QED BY <1>2, <2>1 DEF Done, CallIs
<1>3. CASE o.kind = "attnffn"
  <2>1. step \in {"rattnffn", "hattnffn"} /\ (o.buf = None => step = "rattnffn")
    BY <1>3 DEF CallIs
  <2>2. o.buf = None => g.skipAttn
    BY <2>1 DEF Fit
  <2> DEFINE h == clearResidencyLocked(g)
  <2>3. Device(h) /\ Hidden(h) /\ ~h.active
    BY DEF Device, Fields, clearResidencyLocked, Hidden
  <2>4. l \in AttnFFNResidualQuantCached(g, o) \/ l \in AttnFFNResidualQuantCached(h, o)
    BY <1>3, LaunchIs DEF AttnFFNResidualCached
  <2>5. (Resident(g, o) => g.skipAttn) /\ ~Resident(h, o)
    BY <2>2, <2>3 DEF Resident
  <2> HIDE DEF h
  <2>6. l.rc = "ok" /\ Hidden(l.gpu)
    BY <1>0, <2>3, <2>4, <2>5, ProjectionSmooth
  <2> QED BY <2>1, <2>6 DEF Done
<1>4. CASE o.kind = "attnout"
  <2>1. step = "rattnout" /\ g.skipAttn
    BY <1>4 DEF CallIs, Fit
  <2>2. l.rc = "ok" /\ Hidden(l.gpu) /\ Vector(l.gpu.moe)
    BY <1>0, <1>4, <2>1, LaunchIs, OutputSmooth
  <2> QED BY <2>1, <2>2 DEF Done
<1>5. CASE o.kind \in {"router", "expert"}
  <2>1. step \in {"rrouter", "rexpert", "rexpert2"} /\ Vector(g.moe)
    BY <1>5 DEF CallIs, Fit
  <2>2. l.rc = "ok" /\ Hidden(l.gpu) /\ Vector(l.gpu.moe)
    BY <1>0, <1>5, <2>1, LaunchIs, ExpertSmooth
  <2> QED BY <2>1, <2>2 DEF Done
<1>6. CASE o.kind = "upload"
  <2>1. l.rc = "ok" /\ Hidden(l.gpu)
    BY <1>0, <1>6, LaunchIs, TransferSmooth
  <2> QED BY <1>6, <2>1 DEF Done, CallIs
<1>7. CASE o.kind = "download"
  <2>1. Hidden(l.gpu) /\ l.rc = (IF g.active THEN "ok" ELSE "failed") /\ step \in {"recover", "sync", "release"}
    BY <1>0, <1>7, LaunchIs, TransferSmooth DEF CallIs
  <2> QED BY <2>1 DEF Done, Fit
<1>8. CASE o.kind \in {"logits", "lnresid", "residadd"}
  <2>1. l.rc = "ok" /\ Hidden(l.gpu)
    BY <1>0, <1>8, LaunchIs, ResidentSmooth
  <2> QED BY <1>8, <2>1 DEF Done, CallIs
<1> QED BY <1>1, <1>2, <1>3, <1>4, <1>5, <1>6, <1>7, <1>8 DEF Kinds

-----------------------------------------------------------------------------
(* The steps keep it so.                                                     *)

\* The steps that need nothing of the device.
Plain == (HostSteps \ {"rebuild"}) \cup {"idle", "cpu", "gather", "upload"}

LEMMA PlainGoes ==
  ASSUME NEW s \in Plain, NEW h, Hidden(h), NEW resident
  PROVE  Going(s, resident) /\ Fit(h, s)
BY DEF Plain, HostSteps, Going, Fit, ResidentOnly, ResidentSteps

\* A layer, or what follows the last one, begins with what it finds.
LEMMA LayerGoes ==
  ASSUME NEW layer \in 0..NumLayers, NEW resident \in BOOLEAN, resident => run.n = 1,
         NEW h, Hidden(h), resident => h.active
  PROVE  Going(LayerFrom(layer, resident), resident) /\ Fit(h, LayerFrom(layer, resident))
<1> DEFINE s == LayerFrom(layer, resident)
<1>1. layer = NumLayers \/ layer < NumLayers
  BY SizesAssumption
<1>2. /\ s \in {"rlogits", "sync", "hupload", "idle", "rln", "rqkv", "cpu", "hqkv", "q"}
      /\ resident <=> s \in {"rlogits", "sync", "rln", "rqkv"}
      /\ s = "rqkv" => cfg.family # "phi2"
  BY <1>1, LayerFromIs
<1> HIDE DEF s
<1>3. CASE s \in {"rlogits", "sync", "rln", "rqkv"}
  BY <1>2, <1>3 DEF Going, Fit, ResidentOnly, ResidentSteps, s
<1>4. CASE s \in {"hupload", "idle", "cpu", "hqkv", "q"}
  <2>1. s \in Plain
    BY <1>4 DEF Plain, HostSteps
  <2> QED BY <2>1, PlainGoes DEF s
<1> QED BY <1>2, <1>3, <1>4 DEF s

\* A step with no operation under way after it.
LEMMA RoomGoesOn ==
  ASSUME op' = NoOp, UNCHANGED <<gpu, multi, cfg, faults>>, FlagsInv',
         Faultless /\ Roomy => Going(run'.step, run'.resident) /\ Fit(Here, run'.step)
  PROVE  RoomInv'
<1>1. Made'
  BY DEF Made
<1>2. ASSUME Faultless', Roomy' PROVE Smooth'
  <2>1. Going(run'.step, run'.resident) /\ Fit(Here, run'.step)
    BY <1>2 DEF Faultless, Roomy
  <2> QED BY <2>1 DEF Smooth, Going, Here
<1> QED BY <1>1, <1>2 DEF RoomInv

\* Before an operation opens the hidden state that the devices have is one.
LEMMA IdleHidden ==
  ASSUME RoomInv, op = NoOp, Faultless, Roomy
  PROVE  Hidden(Here) /\ Fit(Here, run.step) /\ Going(run.step, run.resident)
BY DEF RoomInv, Smooth, Fit

\* A token begins.
LEMMA ForwardRoom ==
  ASSUME IInv, RoomInv, NEW n \in {1, cfg.nBatch}, Forward(n)
  PROVE  RoomInv'
<1>1. op = NoOp /\ op' = NoOp /\ UNCHANGED <<gpu, multi, cfg, model, faults>>
  BY ForwardIs
<1>2. PICK s : /\ run' = [run EXCEPT !.layer = 0, !.n = n, !.last = @ + n, !.step = s]
               /\ \/ s \in {"gather", "upload", "cpu", "hqkv", "q"}
                  \/ s \in {"rln", "rqkv"} /\ run.resident /\ (s = "rln" <=> cfg.family = "phi2")
  BY ForwardIs
<1>3. run'.step = s /\ run'.resident = run.resident
  BY <1>2 DEF IInv, HiddenInv, Modes, GoodRun, Run
<1>4. ASSUME Faultless, Roomy PROVE Going(s, run.resident) /\ Fit(Here, s)
  <2>1. Hidden(Here)
    BY <1>1, <1>4, IdleHidden
  <2>2. CASE s \in {"gather", "upload", "cpu", "hqkv", "q"}
    <3>1. s \in Plain
      BY <2>2 DEF Plain, HostSteps
    <3> QED BY <2>1, <3>1, PlainGoes
  <2>3. CASE s \in {"rln", "rqkv"} /\ run.resident /\ (s = "rln" <=> cfg.family = "phi2")
    BY <2>1, <2>3 DEF Going, Fit
  <2> QED BY <1>2, <2>2, <2>3
<1>5. FlagsInv'
  BY <1>1 DEF RoomInv, FlagsInv
<1> QED BY <1>1, <1>3, <1>4, <1>5, RoomGoesOn

\* The next layer.
LEMMA NextLayerGoes ==
  ASSUME IInv, run.step \in OfLayer, Hidden(Here), run.resident => Here.active,
         run' = [run EXCEPT !.layer = @ + 1, !.step = LayerFrom(run.layer + 1, run.resident)]
  PROVE  Going(run'.step, run'.resident) /\ Fit(Here, run'.step)
<1>1. GoodRun(run) /\ run \in Run /\ run.layer \in Nat /\ NumLayers \in Nat /\ run.layer < NumLayers
  BY SizesAssumption DEF IInv, HiddenInv, Modes, GoodRun, Run
<1>2. run.resident \in BOOLEAN /\ (run.resident => run.n = 1) /\ run.layer + 1 \in 0..NumLayers
  BY <1>1 DEF GoodRun, Run, OfLayer
<1> DEFINE s == LayerFrom(run.layer + 1, run.resident)
<1>3. Going(s, run.resident) /\ Fit(Here, s)
  BY <1>2, LayerGoes
<1> HIDE DEF s
<1>4. run'.step = s /\ run'.resident = run.resident
  BY <1>1 DEF Run, s
<1> QED BY <1>3, <1>4

\* A layer that is not offloaded.
LEMMA HostComputesRoom ==
  ASSUME IInv, RoomInv, HostComputes
  PROVE  RoomInv'
<1>1. /\ op = NoOp /\ op' = NoOp /\ UNCHANGED <<gpu, multi, cfg, model, faults>> /\ run.step = "cpu"
      /\ run' = [run EXCEPT !.layer = @ + 1, !.step = LayerFrom(run.layer + 1, run.resident)]
  BY DEF HostComputes, ToNextLayer
<1>2. ASSUME Faultless, Roomy PROVE Going(run'.step, run'.resident) /\ Fit(Here, run'.step)
  <2>1. Hidden(Here) /\ (run.resident => Here.active)
    BY <1>1, <1>2, IdleHidden DEF IInv, HiddenInv, Counted, Here
  <2>2. run.step \in OfLayer
    BY <1>1 DEF OfLayer, Steps
  <2> QED BY <1>1, <2>1, <2>2, NextLayerGoes
<1>3. FlagsInv'
  BY <1>1 DEF RoomInv, FlagsInv
<1> QED BY <1>1, <1>2, <1>3, RoomGoesOn

\* A new conversation begins only after something went wrong.
LEMMA ResetRoom ==
  ASSUME IInv, RoomInv, ResetCache
  PROVE  RoomInv'
<1>1. /\ run.step = "failed" /\ op = NoOp /\ op' = NoOp /\ UNCHANGED <<gpu, multi, cfg, faults>>
      /\ model' = [model EXCEPT !.stale = FALSE, !.hollow = FALSE]
  BY DEF ResetCache
<1>2. ~(Faultless /\ Roomy)
  BY <1>1, IdleHidden DEF Going
<1>3. FlagsInv'
  BY <1>1 DEF RoomInv, FlagsInv, Flags
<1> QED BY <1>1, <1>2, <1>3, RoomGoesOn

\* Where an operation gets to when nothing goes wrong.
LEMMA ReachSmooth ==
  ASSUME Machine, ActiveHere, Hidden(Here), NEW o, NEW a \in Reach(o), a.cost = None
  PROVE  /\ a.rc = "ok" /\ Hidden(a.gpu[a.multi.cur])
         /\ o.kind \notin Routed \cup {"upload"} => a.gpu[a.multi.cur] = Here
<1>1. Split(multi) /\ DOMAIN gpu = Devices /\ (\A d \in Devices : Device(gpu[d])) /\ cfg.devices \in Nat \ {0}
      /\ Devices = 0..cfg.devices-1
  BY SizesAssumption DEF Machine, ConfigsAssumption, Devices
<1>2. \A layer : deviceForLayer(layer) \in Devices
  BY <1>1, OwnerIsDevice DEF deviceForLayer, Split
<1>3. \A d \in Devices : Hidden(gpu[d])
  BY DEF ActiveHere, OnlyAt, Hidden, Here
<1>4. ASSUME NEW g, DOMAIN g = Devices, NEW d \in Devices, g[d] = Activated(gpu[d], Here.resid), Here.active
      PROVE  Hidden(g[d])
  BY <1>1, <1>4 DEF Activated, Hidden, Device, Fields
<1>5. ASSUME NEW dst \in Devices, NEW b \in moveHiddenLocked(dst), b.cost = None
      PROVE  b.rc = "ok" /\ Hidden(b.gpu[b.multi.cur])
  <2> DEFINE src == multi.cur
  <2>0. src \in Devices /\ DOMAIN multi = Plan
    BY <1>1 DEF Split
  <2>1. CASE ~gpu[src].active
    <3>1. b = Arrives(gpu, [multi EXCEPT !.cur = dst], "ok", None)
      BY <1>5, <2>1 DEF moveHiddenLocked
    <3> QED BY <1>3, <2>0, <3>1 DEF Arrives, Plan
  <2>2. ASSUME NEW g, DOMAIN g = Devices, NEW broken, NEW x \in Bounce(g, src, dst, broken), x.cost = None,
               gpu[src].active, g[src].resid = gpu[src].resid, Device(g[dst]), Device(g[src])
        PROVE  x.rc = "ok" /\ Hidden(x.gpu[x.multi.cur])
    <3> DEFINE left == [g EXCEPT ![src] = clearResidencyLocked(@)]
               moved == [left EXCEPT ![dst] = Activated(@, g[src].resid)]
               there == [multi EXCEPT !.cur = dst, !.broken = broken]
    <3>1. x = Arrives(moved, there, "ok", None)
      <4>1. x.cost \in {None, "download", "upload"} /\ (x.cost = None => x = Arrives(moved, there, "ok", None))
        BY <2>2 DEF Bounce, Arrives, None
      <4> QED BY <2>2, <4>1
    <3>2. there.cur = dst
      BY <2>0 DEF Plan
    <3>3. DOMAIN left = Devices /\ Device(left[dst])
      BY <2>0, <2>2 DEF clearResidencyLocked, Device, Fields
    <3>4. moved[dst] = Activated(left[dst], gpu[src].resid)
      BY <2>2, <3>3
    <3>5. Hidden(moved[dst])
      <4>1. Vector(gpu[src].resid)
        BY <1>3, <2>0, <2>2 DEF Hidden
      <4> HIDE DEF moved, left
      <4> QED BY <3>3, <3>4, <4>1 DEF Activated, Hidden, Device, Fields
    <3> HIDE DEF moved, there
    <3> QED BY <3>1, <3>2, <3>5 DEF Arrives
  <2>3. CASE gpu[src].active /\ b \in Peer(src, dst)
    <3>1. PICK p \in PeerCopyResidTo(gpu[src], gpu[dst]) :
            b \in IF p.rc = "ok"
                  THEN {Arrives([gpu EXCEPT ![src] = p.src, ![dst] = p.dst], [multi EXCEPT !.cur = dst], "ok", None)}
                  ELSE {[x EXCEPT !.cost = p.cost] :
                          x \in {y \in Bounce([gpu EXCEPT ![dst] = p.dst], src, dst,
                                             multi.broken \cup Pair(src, dst)) : y.cost = None}}
      BY <2>3 DEF Peer
    <3>2. CASE p.rc = "ok"
      <4>1. p.dst = Activated(gpu[dst], gpu[src].resid)
        BY <3>2 DEF PeerCopyResidTo
      <4> DEFINE moved == [gpu EXCEPT ![src] = p.src, ![dst] = p.dst]
                 there == [multi EXCEPT !.cur = dst]
      <4>2. b = Arrives(moved, there, "ok", None) /\ there.cur = dst
        BY <2>0, <3>1, <3>2 DEF Plan
      <4>3. moved[dst] = p.dst
        BY <1>1, <2>0
      <4>4. Hidden(p.dst)
        <5>1. Vector(gpu[src].resid)
          BY <1>3, <2>0, <2>3 DEF Hidden
        <5> QED BY <1>1, <4>1, <5>1 DEF Activated, Hidden, Device, Fields
      <4> HIDE DEF moved, there
      <4> QED BY <4>2, <4>3, <4>4 DEF Arrives
    <3>3. CASE p.rc # "ok"
      <4>1. p.cost = "peer"
        BY <3>1, <3>3 DEF PeerCopyResidTo
      <4>2. PICK x : x \in Bounce([gpu EXCEPT ![dst] = p.dst], src, dst, multi.broken \cup Pair(src, dst))
                     /\ b = [x EXCEPT !.cost = p.cost]
        BY <3>1, <3>3
      <4>3. DOMAIN x = {"gpu", "multi", "rc", "cost"}
        BY <4>2 DEF Bounce, Arrives
      <4> QED BY <1>5, <4>1, <4>2, <4>3 DEF None
    <3> QED BY <3>2, <3>3
  <2>4. CASE gpu[src].active /\ b \in Bounce(gpu, src, dst, multi.broken \cup Pair(src, dst))
    BY <1>1, <1>5, <2>0, <2>2, <2>4
  <2> QED BY <1>5, <2>1, <2>3, <2>4 DEF moveHiddenLocked
<1>6. CASE o.kind \in Routed
  <2>1. CASE a = Arrives(gpu, multi, "ok", None)
    BY <1>6, <2>1 DEF Arrives, Here
  <2>2. CASE a \in moveHiddenLocked(deviceForLayer(o.layer))
    BY <1>2, <1>5, <1>6, <2>2
  <2> QED BY <1>6, <2>1, <2>2 DEF Reach, route
<1>7. CASE o.kind = "upload"
  <2> DEFINE first == deviceForLayer(0)
             g == [d \in Devices |-> IF d # first /\ gpu[d].active THEN clearResidencyLocked(gpu[d]) ELSE gpu[d]]
             there == [multi EXCEPT !.cur = first]
  <2>1. a = Arrives(g, there, "ok", None)
    BY <1>7 DEF Reach, Routed, HiddenUploadFirst
  <2>2. there.cur = first /\ g[first] = gpu[first]
    BY <1>1, <1>2 DEF Split, Plan
  <2>3. Hidden(gpu[first])
    BY <1>2, <1>3
  <2> HIDE DEF g, there, first
  <2> QED BY <1>7, <2>1, <2>2, <2>3 DEF Arrives
<1>8. CASE o.kind \notin Routed \cup {"upload"}
  <2>1. a = Arrives(gpu, multi, "ok", None)
    BY <1>8 DEF Reach
  <2> QED BY <2>1 DEF Arrives, Here
<1> QED BY <1>6, <1>7, <1>8

\* An operation opens: it finds what it needs, or the model is prepared for the refusal.
LEMMA IssueRoom ==
  ASSUME IInv, RoomInv, Issue
  PROVE  RoomInv'
<1> DEFINE c == CallOf(run.step)
           where == Written(run.step)
<1>1. PICK a \in Reach([kind |-> c.kind, layer |-> where.layer]) :
        LET o == Opened(c, where, a.multi.cur)
            g == a.gpu[o.dev]
        IN  /\ Pays(a.cost)
            /\ multi' = a.multi
            /\ \/ /\ a.rc = "ok" /\ ~Refuses(g, o)
                  /\ op' = o
                  /\ gpu' = [a.gpu EXCEPT ![o.dev] = Entered(g, o)]
               \/ /\ a.rc # "ok" \/ Refuses(g, o)
                  /\ op' = [o EXCEPT !.rc = "failed"]
                  /\ gpu' = a.gpu
  BY DEF Issue
<1> DEFINE o == Opened(c, where, a.multi.cur)
           g == a.gpu[a.multi.cur]
<1>2. op = NoOp /\ Calling /\ UNCHANGED <<cfg, run, model>>
  BY DEF Issue
<1>3. run.step \in ResidentSteps \cup HostSteps
  BY <1>2 DEF IInv, HiddenInv, Modes, GoodRun, Run, Steps, Calling
<1>4. /\ CallIs(run.step, c.kind, c.buf) /\ Suits(c)
      /\ c.kind = "upload" => Vector(c.want.in)
  BY <1>2, <1>3, StepCallIs, StepCalls, UploadsVector DEF Suits
<1>5. /\ DOMAIN o = Ops /\ o.kind = c.kind /\ o.dev = a.multi.cur /\ o.buf = c.buf /\ o.quant = cfg.quant
      /\ o.rc = "open" /\ o.content = c.want.in
  <2>1. o.content = c.want.in
    BY DEF Opened
  <2> QED BY <2>1, OpenedIs
<1>6. /\ Unmoved(a.gpu) /\ a.multi.cur \in Devices
      /\ c.kind # "upload" /\ gpu[multi.cur].active /\ a.cost = None => g.active
  <2>1. /\ Split(a.multi) /\ Unmoved(a.gpu)
        /\ c.kind # "upload" /\ gpu[multi.cur].active /\ a.cost = None => g.active
    BY ReachMoves DEF Moved, IInv, CacheInv, HiddenInv
  <2> QED BY <2>1 DEF Split
<1>7. Faultless' => Faultless /\ a.cost = None
  BY <1>1, <1>2, PaysCounts
<1>8. \/ a.rc = "ok" /\ ~Refuses(g, o) /\ op' = o /\ gpu' = [a.gpu EXCEPT ![a.multi.cur] = Entered(g, o)]
      \/ (a.rc # "ok" \/ Refuses(g, o)) /\ op' = [o EXCEPT !.rc = "failed"] /\ gpu' = a.gpu
  BY <1>1, <1>5
<1>9. multi' = a.multi /\ DOMAIN a.gpu = Devices
  BY <1>1, <1>6 DEF Unmoved
<1>10. a.cost = None /\ Faultless /\ Roomy =>
         /\ a.rc = "ok" /\ Hidden(g)
         /\ c.kind \notin Routed \cup {"upload"} => g = Here
  BY <1>2, IdleHidden, ReachSmooth DEF IInv, CacheInv, HiddenInv
<1> HIDE DEF o, c, where, g
<1>11. /\ op'.kind = c.kind /\ op'.buf = c.buf /\ op'.content = c.want.in
       /\ op'.rc = (IF a.rc = "ok" /\ ~Refuses(g, o) THEN "open" ELSE "failed")
  BY <1>5, <1>8 DEF Ops
<1>12. Made'
  <2>1. op'.kind = "qkv" /\ op'.buf = None /\ op'.rc \in {"open", "ok"} => cfg.quant
    BY <1>5, <1>11 DEF Refuses
  <2> QED BY <1>2, <1>4, <1>11, <2>1 DEF Made
<1>13. FlagsInv'
  BY <1>2 DEF RoomInv, FlagsInv
<1>14. ASSUME Faultless', Roomy' PROVE Smooth'
  <2>1. Faultless /\ Roomy /\ a.cost = None
    BY <1>2, <1>7, <1>14 DEF Roomy
  <2>2. Going(run.step, run.resident) /\ Fit(Here, run.step) /\ a.rc = "ok" /\ Hidden(g)
    BY <1>2, <1>10, <2>1, IdleHidden
  <2>3. op' # NoOp
    BY <1>4, <1>11 DEF NoOp, None, Suits, Kinds
  <2>4. c.kind # "upload" /\ run.resident /\ run.step \notin {"recover", "sync"} => g.active
    BY <1>2, <1>6, <2>1 DEF IInv, HiddenInv, Counted
  <2>5. ASSUME ~Refuses(g, o) PROVE Hidden(gpu'[multi'.cur]) /\ Fit(gpu'[multi'.cur], run.step)
    <3>1. gpu' = [a.gpu EXCEPT ![a.multi.cur] = Entered(g, o)]
      BY <1>8, <2>2, <2>5
    <3>2. gpu'[multi'.cur] = Entered(g, o)
      BY <1>6, <1>9, <3>1
    <3>3. CASE Entered(g, o) = g
      <4>1. Fit(g, run.step)
        BY <1>4, <1>10, <2>1, <2>2 DEF Fit, CallIs, Routed
      <4> QED BY <2>2, <3>2, <3>3, <4>1
    <3>4. CASE Entered(g, o) = clearResidencyLocked(g) /\ o.kind \in {"attnffn", "attnout"} /\ o.buf # None
      <4>1. run.step = "hattnffn"
        BY <1>4, <1>5, <3>4 DEF Suits, CallIs
      <4>2. Device(g)
        BY <1>6 DEF Unmoved, Same, g
      <4>3. Hidden(clearResidencyLocked(g))
        BY <4>2 DEF Hidden, clearResidencyLocked, Device, Fields
      <4> QED BY <3>2, <3>4, <4>1, <4>3 DEF Fit
    <3> QED BY <3>3, <3>4 DEF Entered
  <2>6. ASSUME Refuses(g, o) PROVE Hidden(gpu'[multi'.cur]) /\ Refused'
    <3>1. gpu'[multi'.cur] = g
      BY <1>8, <1>9, <2>6 DEF g
    <3>2. op'.rc = "failed"
      BY <1>11, <2>6
    <3>3. run.step = "gather" \/ (run.step = "rqkv" /\ ~cfg.quant)
      <4>1. CASE o.kind = "gather"
        BY <1>4, <1>5, <4>1 DEF CallIs
      <4>2. CASE o.kind \in {"qkv", "attnffn", "attnout"} /\ o.buf = None /\ (~g.active \/ ~o.quant)
        <5>1. run.step \in {"rqkv", "rattnffn", "rattnout"}
          BY <1>4, <1>5, <4>2 DEF CallIs
        <5>2. run.resident /\ (run.step \in {"rattnffn", "rattnout"} => cfg.quant)
          BY <2>2, <5>1 DEF Going, ResidentOnly, ResidentSteps
        <5>3. g.active
          BY <1>5, <2>4, <4>2, <5>1, <5>2
        <5> QED BY <1>5, <4>2, <5>1, <5>2, <5>3
      <4> QED BY <2>6, <4>1, <4>2 DEF Refuses
    <3> QED BY <1>2, <2>2, <3>1, <3>2, <3>3 DEF Refused
  <2>7. Going(run.step, run.resident)'
    BY <1>2, <2>2 DEF Going
  <2> QED BY <1>2, <1>11, <2>2, <2>3, <2>5, <2>6, <2>7 DEF Smooth, Here
<1> QED BY <1>12, <1>13, <1>14 DEF RoomInv

\* An upload changes nothing but the weight cache, and finds memory.
LEMMA UploadRoom ==
  ASSUME IInv, AccountsInv, RoomInv, Upload
  PROVE  RoomInv'
<1>1. /\ op # NoOp /\ op.rc = "open" /\ UNCHANGED <<multi, cfg, run, model>>
  BY DEF Upload
<1>2. PICK e \in Ensure(gpu[op.dev], Head(op.todo), cfg.vram) :
        /\ Pays(e.cost)
        /\ gpu' = [gpu EXCEPT ![op.dev] = e.gpu]
        /\ op' = IF e.rc = "ok" THEN [op EXCEPT !.todo = Tail(@), !.held = @ \cup {Head(op.todo)}]
                 ELSE [op EXCEPT !.rc = e.rc]
  BY DEF Upload
<1>3. /\ op.dev = multi.cur /\ multi.cur \in Devices /\ DOMAIN op = Ops /\ DOMAIN gpu = Devices
      /\ cfg \in Configs /\ Device(Here) /\ Live(Here) /\ Accounts(Here)
  BY <1>1 DEF IInv, CacheInv, Machine, Split, AccountsInv, Here
<1>4. e \in Ensure(Here, Head(op.todo), cfg.vram)
  BY <1>3 DEF Here
<1>5. SameHidden(Here, e.gpu) /\ e.rc \in {"ok", "failed"} /\ Here' = e.gpu
  BY <1>1, <1>2, <1>3, <1>4, EnsureKeeps DEF Here
<1>6. Faultless' /\ Roomy' => Faultless /\ Roomy /\ e.rc = "ok"
  <2> SUFFICES ASSUME Faultless', Roomy' PROVE Faultless /\ Roomy /\ e.rc = "ok"
    OBVIOUS
  <2>1. Faultless /\ e.cost = None /\ Roomy
    BY <1>1, <1>2, PaysCounts DEF Roomy
  <2> QED BY <1>3, <1>4, <2>1, EnsureSucceeds
<1>7. op'.kind = op.kind /\ op'.buf = op.buf /\ op'.content = op.content /\ op'.rc = (IF e.rc = "ok" THEN "open" ELSE e.rc)
  BY <1>1, <1>2, <1>3 DEF Ops
<1>8. Made'
  BY <1>1, <1>5, <1>7 DEF RoomInv, Made
<1>9. FlagsInv'
  BY <1>1 DEF RoomInv, FlagsInv
<1>10. ASSUME Faultless', Roomy' PROVE Smooth'
  <2>1. Going(run.step, run.resident) /\ Fit(Here, run.step) /\ op'.rc = "open"
    BY <1>1, <1>6, <1>7, <1>10 DEF RoomInv, Smooth
  <2>2. Fit(Here', run.step)
    BY <1>5, <2>1 DEF SameHidden, Fit, Hidden
  <2> QED BY <1>1, <2>1, <2>2 DEF Smooth, Going
<1> QED BY <1>8, <1>9, <1>10 DEF RoomInv

\* A launch finds what it needs.
LEMMA LaunchRoom ==
  ASSUME IInv, RoomInv, Launch
  PROVE  RoomInv'
<1>1. /\ op # NoOp /\ op.rc = "open" /\ UNCHANGED <<multi, cfg, run, model>>
  BY DEF Launch
<1>2. PICK l \in Launches(gpu[op.dev], op) :
        /\ Pays(l.cost)
        /\ gpu' = [gpu EXCEPT ![op.dev] = l.gpu]
        /\ op' = [op EXCEPT !.rc = l.rc, !.read = l.read]
  BY DEF Launch
<1>3. /\ op.dev = multi.cur /\ multi.cur \in Devices /\ DOMAIN op = Ops /\ DOMAIN gpu = Devices
      /\ Device(Here) /\ op.quant = cfg.quant /\ op.kind \in Kinds
      /\ op.kind = "attnffn" /\ op.buf = None => op.quant
      /\ op.kind = "attnout" => op.buf = None
  BY <1>1 DEF IInv, CacheInv, HiddenInv, OfStep, Machine, Split, Here
<1>4. l \in Launches(Here, op) /\ Here' = l.gpu
  BY <1>1, <1>2, <1>3 DEF Here
<1>5. op'.kind = op.kind /\ op'.buf = op.buf /\ op'.content = op.content /\ op'.rc = l.rc
  BY <1>2, <1>3 DEF Ops
<1>6. Made'
  BY <1>1, <1>5 DEF RoomInv, Made
<1>7. FlagsInv'
  BY <1>1 DEF RoomInv, FlagsInv
<1>8. ASSUME Faultless', Roomy' PROVE Smooth'
  <2>1. Faultless /\ l.cost = None /\ Roomy
    BY <1>1, <1>2, <1>8, PaysCounts DEF Roomy
  <2>2. Going(run.step, run.resident) /\ Fit(Here, run.step)
    BY <1>1, <2>1 DEF RoomInv, Smooth
  <2>3. CallIs(run.step, op.kind, op.buf) /\ (op.kind = "upload" => Vector(op.content))
    BY <1>1 DEF RoomInv, Made
  <2>4. op.kind \in {"attnout", "expert", "logits", "lnresid", "residadd"} => Here.active
    <3>1. op.kind \in {"attnout", "expert", "logits", "lnresid", "residadd"} =>
            run.resident \/ run.step = "hlogits"
      BY <2>2, <2>3 DEF CallIs, Going, ResidentOnly, ResidentSteps
    <3> QED BY <2>1, <3>1 DEF IInv, HiddenInv, Counted, Here
  <2>5. \/ l.rc = "ok" /\ Done(Here', run.step)
        \/ run.step = "release" /\ l.rc = "failed" /\ Hidden(Here')
    BY <1>3, <1>4, <2>1, <2>2, <2>3, <2>4, SmoothLaunch
  <2>6. op' # NoOp
    BY <1>3, <1>5 DEF NoOp, None, Kinds
  <2>7. Going(run.step, run.resident)'
    BY <1>1, <2>2 DEF Going
  <2> QED BY <1>1, <1>5, <2>5, <2>6, <2>7 DEF Smooth, Refused
<1> QED BY <1>6, <1>7, <1>8 DEF RoomInv

\* Evictions leave the hidden state alone.
LEMMA EvictRoom ==
  ASSUME IInv, RoomInv, Evict
  PROVE  RoomInv'
<1>1. op = NoOp /\ UNCHANGED <<multi, cfg, op, run, model, faults>>
  BY DEF Evict
<1>2. PICK d \in Devices : \E g \in {EvictMatricesWithPrefix(gpu[d], l) : l \in 0..NumLayers-1}
                \cup {EvictQuantMatrix(gpu[d], m) : m \in OnDevice(gpu[d].lru)}
                \cup {SetWeightCacheLimits(gpu[d], [gpu[d].caps EXCEPT !.entries = 1])} :
         gpu' = [gpu EXCEPT ![d] = g]
  BY DEF Evict
<1>3. PICK g, l, m : /\ gpu' = [gpu EXCEPT ![d] = g]
                     /\ g \in {EvictMatricesWithPrefix(gpu[d], l), EvictQuantMatrix(gpu[d], m),
                               SetWeightCacheLimits(gpu[d], [gpu[d].caps EXCEPT !.entries = 1])}
  BY <1>2
<1>4. Device(gpu[d]) /\ DOMAIN gpu = Devices
  BY DEF IInv, CacheInv, Machine
<1>5. SameHidden(gpu[d], g)
  BY <1>3, <1>4, EvictKeeps
<1>6. SameHidden(Here, Here')
  BY <1>1, <1>3, <1>4, <1>5 DEF Here, SameHidden
<1>7. Made' /\ FlagsInv'
  BY <1>1 DEF RoomInv, Made, FlagsInv
<1>8. ASSUME Faultless', Roomy' PROVE Smooth'
  <2>1. Faultless /\ Roomy
    BY <1>1, <1>8 DEF Faultless, Roomy
  <2>2. Going(run.step, run.resident) /\ Fit(Here, run.step)
    BY <1>1, <2>1, IdleHidden
  <2>3. Fit(Here', run.step)
    BY <1>6, <2>2 DEF SameHidden, Fit, Hidden
  <2> QED BY <1>1, <2>2, <2>3 DEF Smooth, Going
<1> QED BY <1>7, <1>8 DEF RoomInv

\* The flags of the model: only a resident layer leaves the host without rows.
LEMMA FlagsAfter ==
  ASSUME DOMAIN model = Flags, NEW s
  PROVE  /\ Succeeded(s) \/ Failed(s) => DOMAIN model' = Flags
         /\ Succeeded(s) \/ Failed(s) =>
              \/ model'.hollow = model.hollow
              \/ s = "v" /\ model'.hollow = (model.hollow \/ Resident1)
              \/ s = "rqkv" /\ ~Failed(s)
<1> DEFINE Stays == DOMAIN model' = Flags /\ model'.hollow = model.hollow
           Widened == s = "v" /\ DOMAIN model' = Flags /\ model'.hollow = (model.hollow \/ Resident1)
<1>1. /\ model' = model => Stays
      /\ \A a : model' = [model EXCEPT !.residency = a] => Stays
      /\ \A a : model' = [model EXCEPT !.stale = a] => Stays
      /\ \A a, b : model' = [model EXCEPT !.residency = a, !.stale = b] => Stays
      /\ \A a : model' = [model EXCEPT !.logitsOnGPU = a] => Stays
      /\ \A a : model' = [model EXCEPT !.moeGPU = a] => Stays
  BY DEF Flags
<1>2. ProductDone(s) => Stays \/ Widened
  <2>1. s = "v" /\ model' = [model EXCEPT !.hollow = @ \/ Resident1] => Widened
    BY DEF Flags
  <2> HIDE DEF Widened, Stays
  <2> QED BY <1>1, <2>1 DEF ProductDone, To, ToNextLayer
<1>3. \A fails : Rebuilds(fails) => Stays
  <2> HIDE DEF Stays
  <2> QED BY <1>1 DEF Rebuilds
<1>4. LayerFailed => Stays
  <2> SUFFICES ASSUME LayerFailed PROVE Stays
    OBVIOUS
  <2>1. UNCHANGED model \/ model' = [model EXCEPT !.stale = TRUE] \/ RecoverHidden
    <3>1. CASE model.hollow
      BY <3>1, Zenon DEF LayerFailed, To
    <3>2. CASE ~model.hollow /\ op.rc = "kv" /\ cfg.family # "phi2" /\ Length > run.n
      BY <3>2, Zenon DEF LayerFailed
    <3>3. CASE ~model.hollow /\ ~(op.rc = "kv" /\ cfg.family # "phi2" /\ Length > run.n)
      BY <3>3, Zenon DEF LayerFailed
    <3> QED BY <3>1, <3>2, <3>3
  <2> HIDE DEF Stays
  <2> QED BY <1>1, <2>1 DEF RecoverHidden
<1>5. ProductFailed(s) => Stays \/ Widened
  <2> HIDE DEF Stays, Widened
  <2> QED BY <1>1, <1>2 DEF ProductFailed, To
<1>6. Succeeded(s) => \/ Stays \/ Widened
                      \/ s = "rqkv" /\ DOMAIN model' = Flags
  <2>1. model' = [model EXCEPT !.hollow = TRUE] => DOMAIN model' = Flags
    BY DEF Flags
  <2> HIDE DEF Stays, Widened
  <2> QED BY <1>1, <1>2, <1>3, <2>1 DEF Succeeded, To, ToNextLayer
<1>7. Failed(s) => Stays \/ Widened
  <2> HIDE DEF Stays, Widened
  <2> QED BY <1>1, <1>3, <1>4, <1>5 DEF Failed, To
<1> QED BY <1>6, <1>7

\* What follows a product.
LEMMA ProductGoes ==
  ASSUME IInv, Calling, run.step \in Products, ProductDone(run.step), Hidden(Here), run'.resident => Here.active
  PROVE  Going(run'.step, run'.resident) /\ Fit(Here, run'.step)
<1>1. run \in Run /\ cfg.family \in Families /\ GoodRun(run) /\ run.step \in OfLayer
  BY FamilyIs DEF IInv, CacheInv, Machine, HiddenInv, Modes, GoodRun, Products, OfLayer, Steps, HostSteps
<1>2. ASSUME NEW s \in Plain, run' = [run EXCEPT !.step = s]
      PROVE  Going(run'.step, run'.resident) /\ Fit(Here, run'.step)
  BY <1>1, <1>2, PlainGoes DEF Run
<1>3. ASSUME NEW s \in {"radd", "radd2"}, run' = [run EXCEPT !.step = s], run.resident
      PROVE  Going(run'.step, run'.resident) /\ Fit(Here, run'.step)
  <2>1. run'.step = s /\ run'.resident
    BY <1>1, <1>3 DEF Run
  <2> QED BY <1>3, <2>1 DEF Going, Fit
<1>4. CASE ToNextLayer
  <2>1. run'.resident = run.resident
    BY <1>1, <1>4 DEF ToNextLayer, Run
  <2> QED BY <1>1, <1>4, <2>1, NextLayerGoes DEF ToNextLayer
<1>5. CASE run.step \in {"q", "gate", "up"} /\ To(Chain[run.step])
  <2>1. Chain[run.step] \in Plain
    BY <1>5 DEF Chain, Plain, HostSteps
  <2> QED BY <1>2, <1>5, <2>1 DEF To
<1>6. CASE run.step = "k" /\ To(IF cfg.family = "mla" THEN AfterQKV ELSE "v")
  <2>1. (IF cfg.family = "mla" THEN AfterQKV ELSE "v") \in Plain
    BY AfterScoresIs DEF Plain, HostSteps
  <2> QED BY <1>2, <1>6, <2>1 DEF To
<1>7. CASE run.step = "v" /\ run' = [run EXCEPT !.step = AfterQKV]
  <2>1. AfterQKV \in Plain
    BY AfterScoresIs DEF Plain, HostSteps
  <2> QED BY <1>2, <1>7, <2>1
<1>8. CASE run.step = "wo" /\ To(AfterWO)
  <2>1. run.resident => cfg.family = "phi2"
    BY <1>1, <1>8, ResidentIs DEF Calling, ResidentSteps
  <2>2. IF run.resident /\ run.n = 1 THEN AfterWO = "radd" ELSE AfterWO \in {"up", "router", "ffn", "gate"}
    BY <1>1, <2>1, AfterWOIs
  <2>3. AfterWO \in Plain \/ (AfterWO = "radd" /\ run.resident)
    BY <2>2 DEF Plain, HostSteps
  <2> QED BY <1>2, <1>3, <1>8, <2>3 DEF To
<1>9. CASE run.step = "router" /\ (IF model.moeGPU THEN To("expert") ELSE ToNextLayer)
  <2>1. "expert" \in Plain
    BY DEF Plain, HostSteps
  <2> QED BY <1>2, <1>4, <1>9, <2>1 DEF To
<1>10. CASE run.step = "down" /\ (IF Resident1 THEN To("radd2") ELSE ToNextLayer)
  BY <1>3, <1>4, <1>10 DEF To, Resident1
<1> QED BY <1>5, <1>6, <1>7, <1>8, <1>9, <1>10 DEF ProductDone

\* What follows a call that succeeded.
LEMMA SucceededGoes ==
  ASSUME IInv, Calling, Going(run.step, run.resident), Done(Here, run.step), run.step = "rqkv" => cfg.quant,
         Succeeded(run.step), run'.resident => Here.active
  PROVE  Going(run'.step, run'.resident) /\ Fit(Here, run'.step)
<1>0. run \in Run /\ cfg.family \in Families /\ GoodRun(run) /\ Hidden(Here) /\ run.resident \in BOOLEAN
  BY FamilyIs DEF IInv, CacheInv, Machine, HiddenInv, Modes, GoodRun, Done, Run
<1>1. ASSUME NEW s \in Plain, run' = [run EXCEPT !.step = s]
      PROVE  Going(run'.step, run'.resident) /\ Fit(Here, run'.step)
  BY <1>0, <1>1, PlainGoes DEF Run
<1>2. CASE run.step \in Products /\ ProductDone(run.step)
  BY <1>0, <1>2, ProductGoes
<1>3. CASE run.step \in DOMAIN Chain \ Products /\ To(Chain[run.step])
  <2>1. CASE run.step \in {"rattnout", "rrouter", "rexpert"}
    <3>1. Chain[run.step] \in {"rrouter", "rexpert", "rexpert2"}
      BY <2>1 DEF Chain
    <3>2. run'.step \in {"rrouter", "rexpert", "rexpert2"} /\ run'.resident = run.resident
      BY <1>0, <1>3, <3>1 DEF To, Run
    <3>3. run.resident
      BY <2>1 DEF Going, ResidentOnly, ResidentSteps
    <3>4. Vector(Here.moe)
      BY <2>1 DEF Done
    <3> QED BY <1>0, <3>2, <3>3, <3>4 DEF Going, Fit
  <2>2. CASE run.step \notin {"rattnout", "rrouter", "rexpert"}
    <3>1. run.step \in {"rln", "append", "radd", "act", "expert", "hupload", "release"}
      BY <1>3, <2>2 DEF Chain, Products
    <3>2. Chain[run.step] \in Plain
      BY <3>1 DEF Chain, Plain, HostSteps
    <3> QED BY <1>1, <1>3, <3>2 DEF To
  <2> QED BY <2>1, <2>2
<1>4. CASE run.step \in EndsLayer /\ ToNextLayer
  <2>1. run.step \in OfLayer /\ run'.resident = run.resident
    BY <1>0, <1>4 DEF EndsLayer, OfLayer, Steps, ResidentSteps, HostSteps, ToNextLayer, Run
  <2> QED BY <1>0, <1>4, <2>1, NextLayerGoes DEF ToNextLayer
<1>5. CASE run.step = "upload" /\ run' = [run EXCEPT !.resident = TRUE, !.step = LayerFrom(0, TRUE)]
  <2>1. run'.resident /\ run'.step = LayerFrom(0, TRUE) /\ run.n = 1 /\ 0 \in 0..NumLayers
    BY <1>0, <1>5, SizesAssumption DEF Run, GoodRun
  <2>2. Going(LayerFrom(0, TRUE), TRUE) /\ Fit(Here, LayerFrom(0, TRUE))
    BY <1>0, <2>1, LayerGoes
  <2> QED BY <2>1, <2>2 DEF Going
<1>6. CASE run.step = "rqkv" /\ run' = [run EXCEPT !.step = IF cfg.family = "moe" THEN "rattnout" ELSE "rattnffn"]
  <2>1. run'.step \in {"rattnout", "rattnffn"} /\ run'.resident = run.resident
    BY <1>0, <1>6 DEF Run
  <2>2. run.resident /\ cfg.quant /\ Here.skipAttn
    BY <1>6 DEF Going, ResidentOnly, ResidentSteps, Done
  <2> QED BY <1>0, <2>1, <2>2 DEF Going, Fit
<1>7. CASE run.step \in {"hqkv", "scores"} /\ To(AfterScores)
  <2>1. AfterScores \in Plain
    BY AfterScoresIs DEF Plain, HostSteps
  <2> QED BY <1>1, <1>7, <2>1 DEF To
<1>8. CASE run.step = "recover" /\ To(HostLayer(run.layer, model.stale))
  <2>1. HostLayer(run.layer, model.stale) \in Plain
    BY HostLayerIs DEF Plain, HostSteps
  <2> QED BY <1>1, <1>8, <2>1 DEF To
<1>9. CASE \/ run.step = "rlogits" /\ run' = [run EXCEPT !.resident = cfg.family # "phi2", !.step = "idle"]
           \/ run.step = "sync" /\ run' = [run EXCEPT !.resident = FALSE, !.step = "idle"]
           \/ run.step = "hlogits" /\ run' = [run EXCEPT !.resident = ~Single,
                                                         !.step = IF Single THEN "release" ELSE "idle"]
  <2>1. "idle" \in Plain /\ "release" \in Plain
    BY DEF Plain, HostSteps
  <2>2. run'.step \in {"idle", "release"}
    BY <1>0, <1>9 DEF Run
  <2> QED BY <1>0, <2>1, <2>2, PlainGoes
<1>10. run.step # "rebuild"
  BY DEF Going
<1> QED BY <1>2, <1>3, <1>4, <1>5, <1>6, <1>7, <1>8, <1>9, <1>10 DEF Succeeded

\* What follows a call that was refused.
LEMMA RefusedGoes ==
  ASSUME IInv, Calling, Going(run.step, run.resident), Hidden(Here), Refused, run.resident => Here.active \/ run.step # "rqkv",
         ~cfg.quant /\ cfg.family # "phi2" => ~model.hollow, Failed(run.step)
  PROVE  Going(run'.step, run'.resident) /\ Fit(Here, run'.step)
<1>0. run \in Run /\ GoodRun(run)
  BY DEF IInv, HiddenInv, Modes, GoodRun
<1>1. ASSUME NEW s \in Plain, run' = [run EXCEPT !.step = s]
      PROVE  Going(run'.step, run'.resident) /\ Fit(Here, run'.step)
  BY <1>0, <1>1, PlainGoes DEF Run
<1>2. CASE run.step \in {"gather", "release"}
  <2>1. run' = [run EXCEPT !.step = "upload"] \/ run' = [run EXCEPT !.step = "idle"]
    BY <1>2 DEF Failed, To, ResidentLayer, ResidentSteps, Products
  <2>2. "upload" \in Plain /\ "idle" \in Plain
    BY DEF Plain
  <2> QED BY <1>1, <2>1, <2>2
<1>3. CASE run.step = "rqkv" /\ ~cfg.quant /\ op.rc = "failed"
  <2>1. run.resident /\ cfg.family # "phi2" /\ ~model.hollow /\ Here.active
    BY <1>3 DEF Going, ResidentOnly, ResidentSteps
  <2>2. LayerFailed
    BY <1>3 DEF Failed, Products
  <2>3. RecoverHidden
    <3>1. op.rc # "kv"
      BY <1>3
    <3> QED BY <2>1, <2>2, <3>1, Zenon DEF LayerFailed
  <2>4. run'.step = "recover"
    BY <1>0, <2>1, <2>3 DEF RecoverHidden, Here, Run
  <2> QED BY <2>1, <2>4 DEF Going, Fit, ResidentOnly
<1> QED BY <1>2, <1>3 DEF Refused

\* A call returns.
LEMMA ReturnRoom ==
  ASSUME IInv, IInv', RoomInv, Return
  PROVE  RoomInv'
<1>1. /\ op # NoOp /\ op.rc # "open" /\ op' = NoOp
      /\ IF op.rc = "ok" THEN Succeeded(run.step) ELSE Failed(run.step)
      /\ UNCHANGED <<gpu, multi, cfg, faults>>
  BY DEF Return
<1>2. Calling /\ GoodRun(run)
  BY <1>1 DEF IInv, HiddenInv, OfStep, Modes
<1>3. CallIs(run.step, op.kind, op.buf) /\ (op.kind = "qkv" /\ op.buf = None /\ op.rc = "ok" => cfg.quant)
  BY <1>1 DEF RoomInv, Made
<1>4. run.step = "rqkv" /\ op.rc = "ok" => cfg.quant
  BY <1>3 DEF CallIs
<1>5. FlagsInv'
  <2>1. /\ DOMAIN model' = Flags
        /\ \/ model'.hollow = model.hollow
           \/ run.step = "v" /\ model'.hollow = (model.hollow \/ Resident1)
           \/ run.step = "rqkv" /\ op.rc = "ok"
    <3>1. DOMAIN model = Flags
      BY DEF RoomInv, FlagsInv
    <3> QED BY <1>1, <3>1, FlagsAfter
  <2>2. run.step = "v" /\ Resident1 => cfg.family = "phi2"
    BY <1>2, ResidentIs DEF Resident1, ResidentSteps
  <2> QED BY <1>1, <1>4, <2>1, <2>2 DEF RoomInv, FlagsInv
<1>6. ASSUME Faultless, Roomy PROVE Going(run'.step, run'.resident) /\ Fit(Here, run'.step)
  <2>1. Going(run.step, run.resident)
    BY <1>6 DEF RoomInv, Smooth
  <2>2. run'.resident => Here.active
    BY <1>1, <1>6 DEF IInv, HiddenInv, Counted, Faultless, Here
  <2>3. CASE op.rc = "ok"
    <3>1. Done(Here, run.step)
      BY <1>1, <1>6, <2>3 DEF RoomInv, Smooth
    <3> QED BY <1>1, <1>2, <1>4, <2>1, <2>2, <2>3, <3>1, SucceededGoes
  <2>4. CASE op.rc # "ok"
    <3>1. Hidden(Here) /\ Refused
      BY <1>1, <1>6, <2>4 DEF RoomInv, Smooth
    <3>2. run.resident /\ run.step = "rqkv" => Here.active
      <4>1. run.step = "rqkv" => op.kind = "qkv"
        BY <1>3 DEF CallIs
      <4> QED BY <1>1, <1>6, <4>1 DEF IInv, HiddenInv, Counted, Here
    <3> QED BY <1>1, <1>2, <2>1, <2>4, <3>1, <3>2, RefusedGoes DEF RoomInv, FlagsInv
  <2> QED BY <2>3, <2>4
<1> QED BY <1>1, <1>5, <1>6, RoomGoesOn

\* The devices open, with memory and nothing on them.
LEMMA InitRoom == ASSUME Init PROVE RoomInv
<1>1. PICK c \in Configs :
        /\ cfg = c
        /\ gpu = [d \in 0..c.devices-1 |-> [OpenDevice EXCEPT !.caps = c.caps]]
        /\ op = NoOp /\ run.step = "idle" /\ ~run.resident
        /\ DOMAIN model = Flags /\ ~model.hollow
  BY DEF Init, Flags
<1>2. multi.cur \in Devices
  BY InitInv DEF IInv, CacheInv, Machine, Split
<1>3. ~Here.active
  BY <1>1, <1>2 DEF Here, OpenDevice, Devices
<1>4. "idle" \in Plain /\ Hidden(Here)
  BY <1>3 DEF Plain, Hidden
<1>5. Going(run.step, run.resident) /\ Fit(Here, run.step)
  BY <1>1, <1>4, PlainGoes
<1> QED BY <1>1, <1>5 DEF RoomInv, FlagsInv, Made, Smooth

\* Every step keeps it.
LEMMA NextRoom ==
  ASSUME IInv, IInv', AccountsInv, RoomInv, [Next]_vars
  PROVE  RoomInv'
<1>1. CASE UNCHANGED vars
  BY <1>1 DEF vars, RoomInv, FlagsInv, Made, Smooth, Refused, Here, Going, Faultless, Roomy
<1>2. CASE \E n \in {1, cfg.nBatch} : Forward(n)
  BY <1>2, ForwardRoom
<1> QED BY <1>1, <1>2, ResetRoom, IssueRoom, UploadRoom, LaunchRoom, ReturnRoom, HostComputesRoom,
           EvictRoom DEF Next

\* While nothing goes wrong and there is memory, every call finds what it needs.
LEMMA RoomInvariant == Spec => []RoomInv
<1>1. Init => RoomInv
  BY InitRoom
<1>2. IInv /\ IInv' /\ AccountsInv /\ RoomInv /\ [Next]_vars => RoomInv'
  BY NextRoom
<1> QED BY <1>1, <1>2, Invariant, AccountsInvariant, PTL DEF Spec

\* The weight cache keeps to its caps and to the memory, and where there is
\* memory for the protected matrices and one more, a token fails only after
\* something went wrong.
THEOREM CachesAreAccounted == Spec => []CacheAccounts
<1>1. IInv /\ RoomInv => RoomEnough
  <2> SUFFICES ASSUME IInv, RoomInv, run.step = "failed", cfg.vram >= 2 * (weightProtect + 1)
               PROVE  faults < cfg.faults
    BY SizesAssumption, ProtectAssumption DEF RoomEnough, IInv, CacheInv, Machine, ConfigsAssumption
  <2>1. ~Faultless
    BY DEF RoomInv, Smooth, Going, Roomy
  <2>2. cfg.faults \in Nat
    BY SizesAssumption DEF IInv, CacheInv, Machine, ConfigsAssumption
  <2> QED BY <2>1, <2>2 DEF IInv, HiddenInv, Faultless
<1> QED BY <1>1, Invariant, RoomInvariant, CapsAreRespected, PTL DEF CacheAccounts
=============================================================================
