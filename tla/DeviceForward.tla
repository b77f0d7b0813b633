--------------------------- MODULE DeviceForward ---------------------------
(***************************************************************************)
(* A model of pkg/model computes tokens on the devices: the calls of the    *)
(* backend it makes, in their order, and what it does when one of them      *)
(* fails.  cfg.family is "dense" (qwen3), "moe" (qwen3 with experts),       *)
(* "phi2" or "mla" (deepseek2).  What the host computes itself is right;    *)
(* its mirror of the KV is the subject of ResidentForward and of            *)
(* Architectures.                                                           *)
(*                                                                          *)
(* run.step is the call under way, or the one that comes next, and op the   *)
(* operation of the backend it makes.  Another goroutine may evict matrices *)
(* or change the caps between two operations: b.mu is held within one.      *)
(***************************************************************************)
EXTENDS MultiDevice

CONSTANT Configs

\* What a configuration is: a model of one of the families on some devices.
ConfigsAssumption ==
  \A c \in Configs :
    /\ c.family \in {"dense", "moe", "phi2", "mla"}
    /\ c.devices \in Nat \ {0} /\ c.nBatch \in Nat \ {0} /\ c.faults \in Nat
    /\ c.vram \in Nat /\ c.caps \in [entries : Nat, bytes : Nat]
    /\ \A flag \in {"peer", "gather", "fusedQKV", "attnFFN", "postNorms", "quant", "residency",
                    "headOnGPU", "moeGPU"} : c[flag] \in BOOLEAN

\* A model has a layer, and the cache protects the matrices of the call that has most (the code: 8).
ASSUME SizesAssumption ==
  /\ ConfigsAssumption
  /\ NumLayers \in Nat \ {0}
  /\ weightProtect >= 7

VARIABLES
  op,      \* the operation that holds b.mu, or NoOp
  run,     \* the pass over the layers
  model,   \* its flags
  faults,  \* what may still go wrong
  evicts   \* what the other goroutine may still do

vars == <<gpu, multi, cfg, op, run, model, faults, evicts>>

NoOp == [kind |-> None]

Init ==
  \E c \in Configs :
    /\ cfg = c
    /\ gpu = [d \in 0..c.devices-1 |-> [OpenDevice EXCEPT !.caps = c.caps]]
    /\ multi = KVCacheInit(c)
    /\ op = NoOp
    /\ run = [step |-> "idle", layer |-> 0, first |-> 1, last |-> 0, n |-> 0,
              resident |-> FALSE, sub |-> 0]
    /\ model = [residency |-> c.residency, logitsOnGPU |-> c.residency \/ c.headOnGPU,
                moeGPU |-> c.moeGPU, stale |-> FALSE, hollow |-> FALSE]
    /\ faults = c.faults
    /\ evicts = c.evicts

-----------------------------------------------------------------------------
(* The calls: kind, matrices, the host buffer or None, and what the kernels  *)
(* are to read.                                                              *)

LayerOnGPU(layer) == layer < cfg.ngl
Of(stage) == Content(run.last, run.layer, stage)
Final == Content(run.last, NumLayers, "x")
W(names) == [i \in DOMAIN names |-> <<run.layer, names[i]>>]
HeadWeights == <<<<NumLayers, "out_norm">>, <<NumLayers, "head">>>>

QKV == <<"attn_q", "attn_k", "attn_v", "q_norm", "k_norm">>
OutNorm == <<"attn_output", "ffn_norm">>
FFN == <<"ffn_gate", "ffn_up", "ffn_down">>
AttnFFN == OutNorm \o (IF cfg.postNorms THEN <<"post_attn", "post_ffn">> ELSE <<>>) \o FFN
Expert(i) == IF i = 1 THEN <<"gate.1", "up.1", "down.1">> ELSE <<"gate.2", "up.2", "down.2">>

\* The rows a token attends over: the conversation up to it.
RowsOf(layer) == [p \in 1..(run.last - run.first + 1) |-> Content(run.first + p - 1, layer, "kv")]

\* The part of the conversation that the host has for a layer while the KV is
\* written again: this pass counts where the layer is done with its own row.
RebuiltLast ==
  LET has == run.sub < run.layer \/ (run.sub = run.layer /\ ~run.resident)
  IN  IF has THEN run.last ELSE run.last - run.n

Reads(in, attn, rows) == [in |-> in, attn |-> attn, rows |-> rows]
Call(kind, uses, buf, want) == [kind |-> kind, uses |-> uses, buf |-> buf, want |-> want]

\* matmulInto and matmulBatchInto
Product(name, buf, want) ==
  Call(IF run.n > 1 THEN "gemm" ELSE "matmul", W(<<name>>), buf, Input(want))

\* The hidden state is resident: buffers are nil.
ResidentCall(step) ==
  CASE step = "gather" -> Call("gather", <<<<NumLayers, "token_embd">>>>, "x", Input(Of("x")))
    [] step = "upload" -> Call("upload", <<>>, "x", Input(Of("x")))
    [] step = "rqkv" -> Call("qkv", W(QKV \o <<"attn_norm">>), None,
                             Reads(Of("x"), Junk, RowsOf(run.layer)))
    [] step = "rattnffn" -> Call("attnffn", W(AttnFFN), None, Reads(Of("x"), Of("attn"), <<>>))
    [] step = "rattnout" -> Call("attnout", W(OutNorm), None, Reads(Of("x"), Of("attn"), <<>>))
    [] step = "rrouter" -> Call("router", W(<<"router">>), None, Input(Of("hf")))
    [] step = "rexpert" -> Call("expert", W(Expert(1)), None, Reads(Of("xa"), Of("hf"), <<>>))
    [] step = "rexpert2" -> Call("expert", W(Expert(2)), None, Reads(Of("part"), Of("hf"), <<>>))
    [] step = "rln" -> Call("lnresid", W(<<"attn_norm", "attn_bias">>), None, Input(Of("x")))
    [] step = "radd" -> Call("residadd", <<>>, "out", Reads(Of("x"), Of("out"), <<>>))
    [] step = "radd2" -> Call("residadd", <<>>, "out", Reads(Of("xa"), Of("out"), <<>>))
    [] step = "recover" -> Call("download", <<>>, "x", Input(Of("x")))
    [] step = "rlogits" -> Call("logits", HeadWeights, None, Input(Final))
    [] step = "sync" -> Call("download", <<>>, "x", Input(Final))

\* The hidden state is on the host.
HostCall(step) ==
  CASE step = "hqkv" -> Call("qkv", W(QKV), "h", Reads(Of("h"), Junk, RowsOf(run.layer)))
    [] step = "q" -> Product("attn_q", "h", Of("h"))
    [] step = "k" -> Product("attn_k", "h", Of("h"))
    [] step = "v" -> Product("attn_v", "h", Of("h"))
    [] step = "append" -> Call("append", <<>>, None, Input(Of("h")))
    [] step = "rebuild" -> Call("append", <<>>, None, Input(Content(RebuiltLast, run.sub, "h")))
    [] step = "scores" -> Call("scores", IF cfg.family = "mla" THEN W(<<"k_b", "v_b">>) ELSE <<>>,
                               None, Reads(Of("h"), Junk, RowsOf(run.layer)))
    [] step = "hattnffn" -> Call("attnffn", W(AttnFFN), "x", Reads(Of("x"), Of("attn"), <<>>))
    [] step = "wo" -> Product("attn_output", "attn", Of("attn"))
    [] step = "ffn" -> Call("ffn", W(FFN), "h", Input(Of("hf")))
    [] step = "gate" -> Product("ffn_gate", "h", Of("hf"))
    [] step = "up" -> Product("ffn_up", "h", Of(IF cfg.family = "phi2" THEN "h" ELSE "hf"))
    [] step = "act" -> Call("act", <<>>, None, Input(Of("act")))
    [] step = "down" -> Product("ffn_down", "act", Of("act"))
    [] step = "router" -> Product("router", "h", Of("hf"))
    [] step = "expert" -> Call("ffn", W(Expert(1)), "h", Input(Of("hf")))
    [] step = "expert2" -> Call("ffn", W(Expert(2)), "h", Input(Of("hf")))
    [] step = "hupload" -> Call("upload", <<>>, "x", Input(Final))
    [] step = "hlogits" -> Call("logits", HeadWeights, None, Input(Final))
    [] step = "release" -> Call("download", <<>>, None, Input(Final))

ResidentSteps ==
  {"gather", "upload", "rqkv", "rattnffn", "rattnout", "rrouter", "rexpert", "rexpert2", "rln",
   "radd", "radd2", "recover", "rlogits", "sync"}
ResidentLayer ==
  (ResidentSteps \ {"gather", "upload", "recover", "rlogits", "sync"})
    \cup {"q", "k", "v", "append", "scores", "wo", "up", "act", "down"}
CallOf(step) == IF step \in ResidentSteps THEN ResidentCall(step) ELSE HostCall(step)

Length == run.last - run.first + 1
Written(step) ==
  IF step = "rebuild" THEN [layer |-> run.sub, pos |-> 0, n |-> RebuiltLast - run.first + 1]
  ELSE [layer |-> run.layer, pos |-> Length - run.n, n |-> run.n]

-----------------------------------------------------------------------------
(* The backend carries the call out *)

\* A fault that the devices of cfg can have, while the budget lasts.
Pays(cost) ==
  \/ cost = None /\ UNCHANGED faults
  \/ cost \in cfg.can /\ faults > 0 /\ faults' = faults - 1

Calling == run.step \notin {"idle", "failed", "cpu"}

Opened(c, where, dev) ==
  [kind |-> c.kind, layer |-> where.layer, local |-> localLayer(dev, where.layer),
   pos |-> where.pos, n |-> where.n, dev |-> dev, buf |-> c.buf, content |-> c.want.in,
   attn |-> c.want.attn, quant |-> cfg.quant, want |-> c.want, todo |-> c.uses, held |-> {},
   read |-> Input(Junk), rc |-> "open"]

\* The operation reaches its device, or fails on the way.
Issue ==
  /\ op = NoOp /\ Calling
  /\ LET c == CallOf(run.step)
         where == Written(run.step)
     IN  \E a \in Reach([kind |-> c.kind, layer |-> where.layer]) :
           LET o == Opened(c, where, a.multi.cur)
               g == a.gpu[o.dev]
           IN  /\ Pays(a.cost)
               /\ multi' = a.multi
               /\ \/ /\ a.rc = "ok" /\ ~Refuses(g, o)
                     /\ op' = o
                     /\ gpu' = [a.gpu EXCEPT ![o.dev] = Entered(g, o)]
                  \/ /\ a.rc # "ok" \/ Refuses(g, o)
                     /\ op' = [o EXCEPT !.rc = "failed"]
                     /\ gpu' = a.gpu
  /\ UNCHANGED <<cfg, run, model, evicts>>

Upload ==
  /\ op # NoOp /\ op.rc = "open" /\ op.todo # <<>>
  /\ \E e \in Ensure(gpu[op.dev], Head(op.todo), cfg.vram) :
       /\ Pays(e.cost)
       /\ gpu' = [gpu EXCEPT ![op.dev] = e.gpu]
       /\ op' = IF e.rc = "ok" THEN [op EXCEPT !.todo = Tail(@), !.held = @ \cup {Head(op.todo)}]
                ELSE [op EXCEPT !.rc = e.rc]
  /\ UNCHANGED <<multi, cfg, run, model, evicts>>

Launch ==
  /\ op # NoOp /\ op.rc = "open" /\ op.todo = <<>>
  /\ \E l \in Launches(gpu[op.dev], op) :
       /\ Pays(l.cost)
       /\ gpu' = [gpu EXCEPT ![op.dev] = l.gpu]
       /\ op' = [op EXCEPT !.rc = l.rc, !.read = l.read]
  /\ UNCHANGED <<multi, cfg, run, model, evicts>>

\* Another goroutine, between two operations.
Evict ==
  /\ op = NoOp /\ evicts > 0 /\ evicts' = evicts - 1
  /\ \E d \in Devices :
       \E g \in {EvictMatricesWithPrefix(gpu[d], l) : l \in 0..NumLayers-1}
                \cup {EvictQuantMatrix(gpu[d], m) : m \in OnDevice(gpu[d].lru)}
                \cup {SetWeightCacheLimits(gpu[d], [gpu[d].caps EXCEPT !.entries = 1])} :
         gpu' = [gpu EXCEPT ![d] = g]
  /\ UNCHANGED <<multi, cfg, op, run, model, faults>>

-----------------------------------------------------------------------------
(* The model goes on: where a layer begins, with the hidden state on a       *)
(* device or without, and what follows a call.                               *)

Single == run.n = 1
Resident1 == run.resident /\ Single

LogitsFrom(resident) ==
  CASE ~Single -> IF model.residency /\ model.logitsOnGPU THEN "hupload" ELSE "idle"
    [] Single /\ resident -> IF model.logitsOnGPU THEN "rlogits" ELSE "sync"
    [] OTHER -> IF cfg.family = "moe" /\ model.logitsOnGPU THEN "hupload" ELSE "idle"
HostLayer(layer, stale) ==
  CASE ~LayerOnGPU(layer) -> "cpu"
    [] LayerOnGPU(layer) /\ cfg.fusedQKV /\ ~stale /\ Single -> "hqkv"
    [] OTHER -> "q"
LayerFrom(layer, resident) ==
  CASE layer = NumLayers -> LogitsFrom(resident)
    [] layer < NumLayers /\ resident /\ Single -> IF cfg.family = "phi2" THEN "rln" ELSE "rqkv"
    [] OTHER -> HostLayer(layer, model.stale)

AfterScores == IF cfg.family = "dense" /\ cfg.attnFFN /\ Single THEN "hattnffn" ELSE "wo"
AfterQKV == IF model.stale THEN AfterScores ELSE "append"
AfterWO ==
  CASE Resident1 -> "radd"
    [] ~Resident1 /\ cfg.family = "phi2" -> "up"
    [] cfg.family = "moe" -> "router"
    [] cfg.family \in {"dense", "mla"} -> IF Single THEN "ffn" ELSE "gate"

To(step) == run' = [run EXCEPT !.step = step] /\ UNCHANGED model
ToNextLayer ==
  /\ run' = [run EXCEPT !.layer = @ + 1, !.step = LayerFrom(run.layer + 1, run.resident)]
  /\ UNCHANGED model

\* What follows a call that succeeds, where that depends on nothing else.
Chain ==
  [rattnout |-> "rrouter", rrouter |-> "rexpert", rexpert |-> "rexpert2", rln |-> "q", q |-> "k",
   append |-> "scores", radd |-> "up", gate |-> "up", up |-> "act", act |-> "down",
   expert |-> "expert2", hupload |-> "hlogits", release |-> "idle"]
EndsLayer == {"rattnffn", "rexpert2", "radd2", "hattnffn", "ffn", "expert2"}

\* recoverHiddenFromDevice: residency ends; what is lost ends the pass.
RecoverHidden ==
  /\ run' = [run EXCEPT !.resident = FALSE,
                        !.step = IF gpu[multi.cur].active THEN "recover" ELSE "failed"]
  /\ model' = [model EXCEPT !.residency = FALSE]

\* tryRecoverGPUKV writes layer after layer; behind the last one the devices
\* serve again.  Fails says that one of them could not be written.
Rebuilds(fails) ==
  LET next == run.sub + 1
      more == /\ ~fails /\ next < NumLayers /\ LayerOnGPU(next)
              /\ (next <= run.layer /\ ~run.resident) \/ Length > run.n
      stale == fails \/ more
  IN  IF more THEN run' = [run EXCEPT !.sub = next] /\ UNCHANGED model
      ELSE IF run.resident
      THEN /\ run' = [run EXCEPT !.resident = FALSE,
                                 !.step = IF gpu[multi.cur].active THEN "recover" ELSE "failed"]
           /\ model' = [model EXCEPT !.residency = FALSE, !.stale = stale]
      ELSE /\ run' = [run EXCEPT !.step = IF stale THEN AfterScores ELSE "scores"]
           /\ model' = [model EXCEPT !.stale = stale]

Products == {"q", "k", "v", "wo", "gate", "up", "down", "router"}
ProductDone(s) ==
  \/ s \in {"q", "gate", "up"} /\ To(Chain[s])
  \/ s = "k" /\ To(IF cfg.family = "mla" THEN AfterQKV ELSE "v")
  \/ /\ s = "v"
     /\ run' = [run EXCEPT !.step = AfterQKV]
     /\ model' = [model EXCEPT !.hollow = @ \/ Resident1]
  \/ s = "wo" /\ To(AfterWO)
  \/ s = "router" /\ IF model.moeGPU THEN To("expert") ELSE ToNextLayer
  \/ s = "down" /\ IF Resident1 THEN To("radd2") ELSE ToNextLayer

Succeeded(s) ==
  \/ s \in Products /\ ProductDone(s)
  \/ s \in DOMAIN Chain \ Products /\ To(Chain[s])
  \/ s \in EndsLayer /\ ToNextLayer
  \/ /\ s = "upload"
     /\ run' = [run EXCEPT !.resident = TRUE, !.step = LayerFrom(0, TRUE)]
     /\ UNCHANGED model
  \/ /\ s = "rqkv"
     /\ run' = [run EXCEPT !.step = IF cfg.family = "moe" THEN "rattnout" ELSE "rattnffn"]
     /\ model' = [model EXCEPT !.hollow = TRUE]
  \/ s \in {"hqkv", "scores"} /\ To(AfterScores)
  \/ s = "rebuild" /\ Rebuilds(FALSE)
  \/ s = "recover" /\ To(HostLayer(run.layer, model.stale))
  \/ s = "rlogits" /\ run' = [run EXCEPT !.resident = cfg.family # "phi2", !.step = "idle"] /\ UNCHANGED model
  \/ s = "sync" /\ run' = [run EXCEPT !.resident = FALSE, !.step = "idle"] /\ UNCHANGED model
  \/ /\ s = "hlogits"
     /\ run' = [run EXCEPT !.resident = ~Single, !.step = IF Single THEN "release" ELSE "idle"]
     /\ UNCHANGED model

\* A resident layer fails.  When the host has no rows to attend over the pass
\* ends with ResetCache; when a row could not be written they are written again.
LayerFailed ==
  CASE model.hollow -> To("failed")
    [] ~model.hollow /\ op.rc = "kv" /\ cfg.family # "phi2" /\ Length > run.n ->
         /\ run' = [run EXCEPT !.step = "rebuild", !.sub = 0]
         /\ model' = [model EXCEPT !.stale = TRUE]
    [] OTHER -> RecoverHidden

\* A product on the host's vectors fails: a batch and deepseek2 compute it on
\* the host, the others give up.
ProductFailed(s) ==
  IF ~Single \/ cfg.family = "mla" THEN ProductDone(s) ELSE To("failed")

Failed(s) ==
  \/ Resident1 /\ s \in ResidentLayer /\ s # "act" /\ LayerFailed
  \/ ~Resident1 /\ s \in Products /\ ProductFailed(s)
  \/ s = "gather" /\ To("upload")
  \/ /\ s = "upload"
     /\ run' = [run EXCEPT !.step = LayerFrom(0, run.resident)]
     /\ model' = [model EXCEPT !.residency = FALSE]
  \/ s \in {"recover", "sync"} /\ run' = [run EXCEPT !.resident = FALSE, !.step = "failed"] /\ UNCHANGED model
  \/ s = "rlogits" /\ run' = [run EXCEPT !.step = "sync"] /\ model' = [model EXCEPT !.logitsOnGPU = FALSE]
  \/ /\ s = "hupload"
     /\ run' = [run EXCEPT !.resident = @ /\ Single, !.step = "idle"]
     /\ model' = IF Single THEN [model EXCEPT !.logitsOnGPU = FALSE] ELSE [model EXCEPT !.residency = FALSE]
  \/ /\ s = "hlogits"
     /\ run' = [run EXCEPT !.resident = ~Single, !.step = IF Single THEN "release" ELSE "idle"]
     /\ model' = [model EXCEPT !.logitsOnGPU = FALSE]
  \/ s = "release" /\ To("idle")
  \/ s = "hqkv" /\ To("q")
  \/ ~Resident1 /\ s = "append" /\ cfg.family = "phi2" /\ To(IF Single THEN "scores" ELSE AfterScores)
  \/ /\ ~Resident1 /\ s = "append" /\ cfg.family \in {"dense", "moe"}
     /\ run' = [run EXCEPT !.step = "rebuild", !.sub = 0]
     /\ model' = [model EXCEPT !.stale = TRUE]
  \/ /\ s \in {"append", "scores"} /\ cfg.family = "mla"
     /\ run' = [run EXCEPT !.step = "wo"]
     /\ model' = [model EXCEPT !.stale = TRUE]
  \/ ~Resident1 /\ s = "scores" /\ cfg.family # "mla" /\ To(AfterScores)
  \/ s = "rebuild" /\ Rebuilds(TRUE)
  \/ s = "hattnffn" /\ To("wo")
  \/ s = "ffn" /\ To("gate")
  \/ s = "act" /\ To("down")
  \/ /\ s \in {"expert", "expert2"}
     /\ run' = [run EXCEPT !.layer = @ + 1, !.step = LayerFrom(run.layer + 1, run.resident)]
     /\ model' = [model EXCEPT !.moeGPU = FALSE]

\* The call returns and b.mu is free.
Return ==
  /\ op # NoOp /\ op.rc # "open"
  /\ op' = NoOp
  /\ IF op.rc = "ok" THEN Succeeded(run.step) ELSE Failed(run.step)
  /\ UNCHANGED <<gpu, multi, cfg, faults, evicts>>

\* A layer that is not offloaded.
HostComputes == run.step = "cpu" /\ op = NoOp /\ ToNextLayer /\ UNCHANGED <<gpu, multi, cfg, op, faults, evicts>>

-----------------------------------------------------------------------------
(* Tokens *)

\* forwardToken, or forwardBatch for the chunk of a prompt.
Forward(n) ==
  LET begun == [run EXCEPT !.layer = 0, !.n = n, !.last = @ + n]
      hidden == n = 1 /\ model.residency /\ ~model.stale
  IN  /\ run.step = "idle" /\ op = NoOp
      /\ run.last + n <= MaxTokens
      /\ n > 1 => run.last < run.first /\ ~run.resident
      /\ run' = [begun EXCEPT !.step =
                   CASE hidden -> IF cfg.gather THEN "gather" ELSE "upload"
                     [] ~hidden /\ run.resident /\ n = 1 -> IF cfg.family = "phi2" THEN "rln" ELSE "rqkv"
                     [] OTHER -> IF ~LayerOnGPU(0) THEN "cpu"
                                 ELSE IF n = 1 /\ cfg.fusedQKV /\ ~model.stale THEN "hqkv" ELSE "q"]
      /\ UNCHANGED <<gpu, multi, cfg, op, model, faults, evicts>>

\* ResetCache: the next token begins a new conversation.
ResetCache ==
  /\ run.step = "failed" /\ op = NoOp
  /\ run' = [run EXCEPT !.step = "idle", !.first = run.last + 1, !.resident = FALSE, !.n = 0]
  /\ model' = [model EXCEPT !.stale = FALSE, !.hollow = FALSE]
  /\ UNCHANGED <<gpu, multi, cfg, op, faults, evicts>>

Next ==
  \/ \E n \in {1, cfg.nBatch} : Forward(n)
  \/ ResetCache \/ Issue \/ Upload \/ Launch \/ Return \/ HostComputes \/ Evict

Spec == Init /\ [][Next]_vars

-----------------------------------------------------------------------------
(* Properties *)

\* The pointers a fused operation already holds stay valid while it uploads
\* its other matrices: eviction spares them.
HeldOnDevice == op # NoOp /\ op.rc = "open" => op.held \subseteq OnDevice(gpu[op.dev].lru)

\* No captured graph embeds the pointer of a matrix that was freed.
GraphsUseLiveWeights ==
  \A d \in Devices : \A graph \in gpu[d].graphs : graph \subseteq OnDevice(gpu[d].lru)

\* The cache holds no matrix twice and keeps to its cap, but for the matrices it protects, and to the
\* memory of the device.
CapsRespected ==
  \A d \in Devices :
    /\ Cardinality(OnDevice(gpu[d].lru)) = Len(gpu[d].lru)
    /\ Bytes(gpu[d].lru) <= cfg.vram
    /\ gpu[d].caps.entries > 0 => Len(gpu[d].lru) <= Larger(gpu[d].caps.entries, weightProtect)

\* At most one device holds the hidden state, and while the model counts on it
\* and nothing failed, that is the device the next operation goes to.
OneHidden ==
  /\ Cardinality({d \in Devices : gpu[d].active}) <= 1
  /\ run.resident /\ op = NoOp /\ faults = cfg.faults => gpu[multi.cur].active

\* What the kernels of an operation read is what the model means by it: the
\* vectors of this token and layer, and the rows of this conversation.
KernelsReadTheirInputs == op # NoOp /\ op.rc = "ok" => op.read = op.want

\* With memory for weightProtect + 1 matrices eviction always makes room: a
\* token fails only after something went wrong.
RoomEnough ==
  run.step = "failed" => faults < cfg.faults \/ cfg.vram < 2 * (weightProtect + 1)

\* The books of the weight cache: what it counts is there, and it can make room.
CacheAccounts == CapsRespected /\ RoomEnough
=============================================================================
