--------------------------- MODULE Architectures ---------------------------
(* The models of pkg/model, one of which is loaded: pkg/model/model.go       *)
(* creates the one that general.architecture names.                          *)
EXTENDS ForwardState

ASSUME SizesAssumption == NumLayers \in Nat \ {0} /\ CtxLen \in Nat

llama == INSTANCE Llama
mistral == INSTANCE Mistral
gemma == INSTANCE Gemma
phi3 == INSTANCE Phi3
phi2 == INSTANCE Phi2
deepseek == INSTANCE Deepseek
deepseek2 == INSTANCE Deepseek2

\* pkg/model Load
Load(c) ==
  CASE c.arch = "llama" -> llama!Load(c)
    [] c.arch = "mistral" -> mistral!loadWithConfig(c)
    [] c.arch = "gemma" -> gemma!load(c)
    [] c.arch = "phi3" -> phi3!Load(c)
    [] c.arch = "phi2" -> phi2!Load(c)
    [] c.arch = "deepseek" -> deepseek!Load(c)
    [] c.arch = "deepseek2" -> deepseek2!Load(c)

Idle == [pc |-> "idle", layer |-> 0, todo |-> 0, batch |-> 0, past |-> 0,
         x |-> NoHidden, logits |-> NoHidden, embed |-> FALSE]

Init ==
  \E c \in Configs :
    /\ cfg = Load(c).cfg /\ decode = Load(c).decode
    /\ kv = NewKV /\ dev = NewDevice /\ run = Idle

\* A goroutine that panics ends the process, which is started again.
Restart ==
  /\ run.pc = "panic"
  /\ kv' = NewKV /\ dev' = NewDevice /\ run' = Idle
  /\ \E c \in Configs : cfg = Load(c).cfg /\ decode' = Load(c).decode
  /\ UNCHANGED cfg

Next ==
  \/ cfg.arch = "llama" /\ llama!Next
  \/ cfg.arch = "mistral" /\ mistral!Next
  \/ cfg.arch = "gemma" /\ gemma!Next
  \/ cfg.arch = "phi3" /\ phi3!Next
  \/ cfg.arch = "phi2" /\ phi2!Next
  \/ cfg.arch = "deepseek" /\ deepseek!Next
  \/ cfg.arch = "deepseek2" /\ deepseek2!Next
  \/ Restart

Spec == Init /\ [][Next]_vars

-----------------------------------------------------------------------------
(* The models that the properties below are about.  What the others do is    *)
(* named in the README.                                                      *)

\* The hidden state may stay on the device.
MayReside(c) == c.fused /\ AllOffloaded(c) /\ (c.arch = "mistral" => c.sliding = {})

\* gemma attends on the host over its sliding layers, with a softcap over all.
OffDevice(c) == c.arch = "gemma" /\ (c.sliding # {} \/ c.softcap)

Archs == {"llama", "mistral", "gemma", "phi3", "phi2", "deepseek", "deepseek2"}

\* The options of a model file and of the command line, its faults, and the two
\* sizes that Load computes.
Options ==
  [arch : Archs, ctx : Nat, ngl : Nat, gpuMaxSeq : Nat, maxSeq : Nat, kvCap : Nat, nBatch : Nat,
   window : Nat \ {0}, sliding : SUBSET Layers, moe : BOOLEAN, softcap : BOOLEAN, absorbed : BOOLEAN,
   fused : BOOLEAN, faults : SUBSET STRING]

\* One part per way in which a model that may be loaded goes wrong:
Covered(c) ==
  /\ c \in Options
  /\ c.sliding # {} => c.arch = "gemma" \/ (c.arch = "mistral" /\ c.sliding = Layers)
  \* rows that are on the device alone are lost with it;
  /\ MayReside(c) /\ c.arch # "deepseek2" =>
       c.ctx <= CapMaxSeq(c.ctx, c.gpuMaxSeq) /\ c.faults \cap {"append", "attention"} = {}
  \* a lost append is not noticed;
  /\ c.arch \in {"phi3", "phi2", "deepseek"} => "append" \notin c.faults
  \* the host attends over rows that it does not have;
  /\ OffDevice(c) /\ MayReside(c) => c.nBatch <= 1 /\ "upload" \notin c.faults
  \* a batch reads one row too many, and the context ends with the window;
  /\ c.arch = "gemma" /\ c.sliding # {} =>
       c.nBatch <= c.window /\ (MayReside(c) => c.faults # {})
  \* the hidden state of the previous token is taken for this one's, and
  \* experts are added twice.
  /\ c.arch = "deepseek2" /\ MayReside(c) =>
       c.ctx <= 1 /\ (c.moe => "expert" \notin c.faults)

-----------------------------------------------------------------------------
Returned == run.pc = "idle" /\ run.past > 0

\* What a call returns is computed from the tokens of the conversation alone:
\* every row that any layer attended to was the right one, wherever it was.
AnswerRight == Returned => run.logits = Hidden(run.past - 1, NumLayers)

\* No chunk of a prefill reads behind the rows of the cache, which would end
\* the process.
NoPanic == run.pc # "panic"

\* Between calls the host mirror holds the rows of the conversation, the last
\* window of them in a sliding layer, unless CPUKVHollow says that it does not.
MirrorsAgree ==
  Returned /\ ~decode.hollow =>
    \A l \in Layers :
      \A i \in DOMAIN kv.rows[l] :
        /\ kv.rows[l][i] = run.past - Len(kv.rows[l]) + i - 1
        /\ Len(kv.rows[l]) >= IF l \in cfg.sliding /\ cfg.window < run.past
                              THEN cfg.window ELSE run.past

\* While a conversation fits the device, the device holds all of its rows
\* unless GPUKVStale says that it does not (legacy MLA stores none there).
DeviceAgrees ==
  Returned /\ ~decode.stale /\ cfg.absorbed /\ run.past <= cfg.maxSeq =>
    \A l \in OnGPU : 0..run.past-1 \subseteq dev.kv[l]

\* Between calls the rows on both sides are those of the conversation, as far as the
\* two flags do not take it back.
MirrorsKept == MirrorsAgree /\ DeviceAgrees

\* A call does not fail unless something fails on the device or a product does.
NoFailureUnprovoked == run.pc = "failed" => cfg.faults # {}
=============================================================================
