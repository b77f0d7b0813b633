----------------------------- MODULE Algorithms -----------------------------
(***************************************************************************)
(* The parts of the program that compute an answer and keep nothing, each   *)
(* held against a definition of what it is to compute.  A job is one call    *)
(* with its inputs; a behaviour picks a job and does it.                     *)
(***************************************************************************)
EXTENDS Sampling, Tokenizer, Chat, ModelConfig, QuantLayout, GGUFFile, LayerSplit

CONSTANT Jobs       \* for each kind of call, the inputs to try

\* Layers are split over one device or more, hyperparameters are written as unsigned
\* numbers, a tensor that is cut has rows and columns, and nobody asks for the best -1.
ASSUME JobsAssumption ==
  /\ "layers" \in DOMAIN Jobs =>
       \A i \in Jobs["layers"] : i.layers \in Nat /\ i.devices \in Nat \ {0} /\ i.split \in Seq(Int)
  /\ "model" \in DOMAIN Jobs =>
       \A i \in Jobs["model"] : i.file.md \in [DOMAIN i.file.md -> Nat] /\ i.nBatch \in Int
  /\ "sample" \in DOMAIN Jobs =>
       \A i \in Jobs["sample"] :
         LET n == Cardinality(DOMAIN i.logits)
         IN  n \in Nat \ {0} /\ i.logits \in [0..(n - 1) -> Int] /\ i.k \in Nat
  /\ "experts" \in DOMAIN Jobs => \A i \in Jobs["experts"] : i.used \in Nat /\ i.probs \in Seq(Int)
  /\ "parts" \in DOMAIN Jobs =>
       \A i \in Jobs["parts"] :
         /\ i.type \in DOMAIN Blocks
         /\ {i.qDim, i.kvDim, i.cols, i.experts} \subseteq Nat \ {0}

VARIABLES
  job,              \* [kind, in]
  result            \* <<>>, then one record: the answer

vars == <<job, result>>

Waiting(kind) == result = <<>> /\ job.kind = kind
Answered(kind) == result # <<>> /\ job.kind = kind
In == job.in
Out == result[1]
Answer(record) == result' = <<record>> /\ UNCHANGED job

Init == /\ \E k \in DOMAIN Jobs : \E i \in Jobs[k] : job = [kind |-> k, in |-> i]
        /\ result = <<>>

\* prepareLogits of a session.
Penalise == Waiting("penalties") /\ Answer([logits |-> PrepareLogits(In.logits, In.history, In)])

\* One draw with New's sampler: every token it may be; and the most probable ones.
Sample == Waiting("sample") /\ Answer([draws |-> Draws(In.logits, In.cfg), top |-> TopLogprobs(In.logits, In.k)])

Pretokenize == Waiting("pieces") /\ Answer([pieces |-> Pieces(In.text)])
MergePairs == Waiting("bpe") /\ Answer([symbols |-> BPE(In.merges, In.word)])

\* A text is encoded, and then decoded at once and token by token.
Tokenize ==
  /\ Waiting("tokens")
  /\ Answer([ids |-> Encode(In.tk, In.text), segments |-> Segments(Specials(In.tk), In.text)])
Detokenize ==
  /\ Answered("tokens") /\ Out.ids # Failed /\ "text" \notin DOMAIN Out
  /\ Answer(Out @@ [text |-> Decode(In.tk, Out.ids), streamed |-> Streamed(In.tk, Out.ids)])
Decoded == Answered("tokens") /\ "text" \in DOMAIN Out

\* What the model wrote is cut off at a stop and taken apart.
Complete ==
  /\ Waiting("reply")
  /\ LET s == Generated(In.tokens, In.stops, In.max)
         text == trimStopSuffix(FlattenSeq(s.generated), In.stops)
         parsed == ParseAssistantOutput(text)
     IN  Answer([generated |-> s.generated, reason |-> s.reason, text |-> text, reply |-> parsed,
                 finish |-> IF parsed.calls # <<>> THEN "tool_calls" ELSE s.reason])

\* A reply is written into the next prompt, and read again.
WriteReply ==
  /\ Waiting("body")
  /\ Answer([body |-> formatAssistantBody(In), reply |-> ParseAssistantOutput(formatAssistantBody(In))])

AskQuestion == Waiting("prompt") /\ Answer([prompt |-> FormatMessages(In.file, In.messages, In.opts)])
AskOnce == Waiting("question") /\ Answer([prompt |-> FormatUser(In.file, In.opts)])

\* A model is loaded: its configuration, then its buffers.
LoadModel ==
  /\ Waiting("model")
  /\ LET p == Parse(Loader(In.file), In.file.md)
     IN  Answer(IF p.outcome # "config" THEN p
                ELSE With(p, [arena |-> Allocated(Scratch(Loader(In.file), p.cfg, In.nBatch))]))
Route == Waiting("experts") /\ Answer([chosen |-> TopKSoftmax(In.probs, In.used)])

DecodeBlock == Waiting("block") /\ Answer(Blocks[In.type])

\* A tensor of experts of qDim + 2 * kvDim rows is cut up in every way the code knows.
CutTensor ==
  /\ Waiting("parts")
  /\ LET t == In.type
         rows == In.qDim + 2 * In.kvDim
         n == In.experts * rows
         raw == n * DataSize(t, In.cols)
         one == rows * DataSize(t, In.cols)
     IN  Answer([raw |-> raw, need |-> QuantBytes(t, n, In.cols), floats |-> ToFloat32(t, raw, n * In.cols),
                 valid |-> ValidateQuantMatMul(t, one, rows, In.cols, In.cols),
                 device |-> [e \in 0..(In.experts - 1) |-> ExpertSlice(t, raw, e, rows, In.cols)],
                 host |-> [e \in 0..(In.experts - 1) |-> MatMulExpertInto(t, raw, e, rows, In.cols)],
                 gathered |-> [r \in 0..(n - 1) |-> EmbeddingRow(t, raw, In.cols, r)],
                 multiplied |-> [r \in 0..(n - 1) |-> ProductRow(t, raw, n, In.cols, r)],
                 qkv |-> QKVFusedSlices(t, one, In.qDim, In.kvDim),
                 gateUp |-> GateUpFusedSlices(t, 2 * In.qDim * DataSize(t, In.cols), In.qDim)])

\* The first bytes of a file are opened, and then every tensor it lists is taken.
OpenFile == Waiting("file") /\ Answer([opened |-> Open(SubSeq(In.bytes, 1, In.cut))])
LoadTensors ==
  /\ Answered("file") /\ Out.opened.ok /\ "loads" \notin DOMAIN Out
  /\ LET tensors == Out.opened.value.tensors
     IN  Answer(Out @@ [loads |-> [i \in DOMAIN tensors |->
                          LoadRawView(In.cut, In.mapped, Out.opened, tensors[i],
                                      DataSize(DTypes[tensors[i].type], ValuesCount(tensors[i])))]])

\* Each tensor is turned into floats (Store.Floats) and, when it has blocks, multiplied.
UseTensors ==
  /\ Answered("file") /\ "loads" \in DOMAIN Out /\ "used" \notin DOMAIN Out
  /\ LET tensors == Out.opened.value.tensors
         T(i) == DTypes[tensors[i].type]
         N(i) == ValuesCount(tensors[i])
         Held(i) == IF Out.loads[i].got = "bytes" THEN Out.loads[i].to - Out.loads[i].from ELSE 0
         Erred(i) == Out.loads[i].got = "error"
     IN  Answer(Out @@ [used |-> [i \in DOMAIN tensors |->
           [floats  |-> ~Erred(i) /\ ToFloat32(T(i), Held(i), N(i)),
            product |-> /\ ~Erred(i) /\ FusedQuantSupported(T(i))
                        /\ LET cols == tensors[i].dims[1] IN ProductRow(T(i), Held(i), N(i) \div cols, cols, 0) # {}]]])
Taken == Answered("file") /\ "loads" \in DOMAIN Out
Tried == Answered("file") /\ "used" \in DOMAIN Out

PlanLayers ==
  /\ Waiting("layers")
  /\ LET bounds == LayerSplitBounds(In.layers, In.devices, In.split)
     IN  Answer([bounds |-> bounds, owner |-> [l \in 0..(In.layers - 1) |-> OwnerOf(bounds, l)]])

Next == \/ Penalise \/ Sample \/ Pretokenize \/ MergePairs \/ Tokenize \/ Detokenize \/ Complete \/ WriteReply
        \/ AskQuestion \/ AskOnce \/ LoadModel
        \/ Route \/ DecodeBlock \/ CutTensor \/ OpenFile \/ LoadTensors \/ UseTensors \/ PlanLayers

Spec == Init /\ [][Next]_vars

(***************************************************************************)
(* Sampling                                                                 *)
(***************************************************************************)
\* Every token that was seen is penalised once, however often it was seen: presence
\* over the whole history, repetition over its end, then the bias of the caller
\* (penalties.go, session.go).
PenaltiesCountATokenOnce ==
  Answered("penalties") =>
    \A t \in Vocabulary(In.logits) :
      LET seen   == \E i \in DOMAIN In.history : In.history[i] = t
          recent == \E i \in DOMAIN In.history :
                       In.history[i] = t /\ (In.lastN = 0 \/ i > Len(In.history) - In.lastN)
          present == In.logits[t] - (IF seen THEN In.presence ELSE 0)
          repeated == IF ~recent \/ In.repeat \in {0, 1} THEN present
                      ELSE IF present > 0 THEN present \div In.repeat ELSE present * In.repeat
      IN  Out.logits[t] = repeated + (IF t \in DOMAIN In.bias THEN In.bias[t] ELSE 0)

\* What may survive the cuts: the k best in some order of the ties, of those the ones
\* near the best, of those the ones that less than the share of TopP is better than.
Survivors(logits, cfg) ==
  LET V == Vocabulary(logits)
      weight == Probabilities(logits, ApplyTemperature(cfg.temp))
      k == IF cfg.topK > 0 THEN Min({cfg.topK, Cardinality(V)}) ELSE Cardinality(V)
      best == {K \in kSubset(k, V) : \A u \in V \ K, v \in K : logits[u] <= logits[v]}
      near(K) == {t \in K : \A u \in V : Quarters * weight[t] >= cfg.minP * weight[u]}
      share == IF cfg.topP > 0 /\ cfg.topP < Quarters THEN cfg.topP ELSE 2 * Quarters
  IN  UNION {{t \in near(K) : Quarters * SumOver(weight, {u \in near(K) : weight[u] > weight[t]})
                                < share * SumOver(weight, near(K))} : K \in best}

\* At a temperature the sampler can draw exactly the tokens that none of the cuts in
\* force removes; at 0, with neither top-k nor top-p, it takes the most probable one,
\* which can be drawn in every case (chain.go).  docs/api.md says that 0 is greedy; with
\* top-k or top-p it is not (README), and nothing more is claimed of that case.
DrawsAreTheSurvivors ==
  Answered("sample") =>
    /\ Greedy(In.logits) \in Out.draws
    /\ In.cfg.temp > 0 => Out.draws = Survivors(In.logits, In.cfg)
    /\ In.cfg.temp = 0 /\ In.cfg.topK = 0 /\ In.cfg.topP \in {0, Quarters} => Out.draws = {Greedy(In.logits)}

\* The alternatives reported with a token are the k most probable, best first, and the
\* first of them is the greedy choice (logprobs.go).
TopLogprobsAreTheTop ==
  Answered("sample") =>
    LET top == Out.top
        l == In.logits
    IN  /\ Len(top) = Min({In.k, Cardinality(Vocabulary(l))})
        /\ \A i, j \in DOMAIN top : i < j => top[i] # top[j] /\ l[top[i]] >= l[top[j]]
        /\ \A t \in Vocabulary(l) \ ToSet(top), i \in DOMAIN top : l[t] <= l[top[i]]
        /\ top # <<>> => top[1] = Greedy(l)

\* The logits a session samples from, and what the chain draws from them.
SamplingIsExact == PenaltiesCountATokenOnce /\ DrawsAreTheSurvivors

(***************************************************************************)
(* Tokens                                                                   *)
(***************************************************************************)
\* The alternatives of the regular expression that pretokenizeQwen2 stands for, as the
\* places where a match from i may end: a contraction; letters, behind at most one
\* other character; a digit; marks, behind at most one space, with the newlines that
\* follow; spaces up to a newline; spaces not followed by anything else; spaces.
Alternatives(text, i) ==
  LET All(from, to, class) == \A k \in from..(to - 1) : At(text, k) \in class
      AllMarks(from, to) == \A k \in from..(to - 1) : Mark(text, k)
      Ends == (i + 1)..(Len(text) + 1)
      Behind(class) == IF At(text, i) \in class THEN {i, i + 1} ELSE {i}
      Others == {" "} \cup {c \in ToSet(text) : c \notin Letters \cup Digits \cup Spaces}
  IN  <<IF At(text, i) = "'" THEN {j \in Ends : SubSeq(text, i + 1, j - 1) \in {<<"s">>, <<"r", "e">>}} ELSE {},
        {j \in Ends : \E from \in Behind(Others) : from < j /\ All(from, j, Letters)},
        {j \in Ends : j = i + 1 /\ At(text, i) \in Digits},
        {j \in Ends : \E from \in Behind({" "}), m \in Ends :
                         from < m /\ m <= j /\ AllMarks(from, m) /\ All(m, j, {Newline})},
        {j \in Ends : All(i, j, Spaces) /\ text[j - 1] = Newline},
        {j \in Ends : All(i, j, Spaces) /\ (j = Len(text) + 1 \/ At(text, j) \in Spaces)},
        {j \in Ends : All(i, j, Spaces)}>>
RegexEnd(text, i) ==
  LET alternatives == Alternatives(text, i)
      first == CHOOSE n \in 1..7 : alternatives[n] # {} /\ \A m \in 1..(n - 1) : alternatives[m] = {}
  IN  Max(alternatives[first])

\* The hand-written scanner cuts a text exactly where the regular expression with its
\* look-ahead does, which Go's regexp cannot express (pretokenize.go).
PiecesAreTheRegex ==
  Answered("pieces") =>
    LET StartOf(n) == 1 + Len(FlattenSeq(SubSeq(Out.pieces, 1, n - 1)))
    IN  /\ FlattenSeq(Out.pieces) = In.text
        /\ \A n \in DOMAIN Out.pieces : StartOf(n) + Len(Out.pieces[n]) = RegexEnd(In.text, StartOf(n))

\* One round: the merge is applied wherever it can be, from left to right.
Merged(merge, symbols) ==
  FoldLeft(LAMBDA out, s : IF out # <<>> /\ <<Last(out), s>> = merge
                           THEN Append(Front(out), merge[1] \o merge[2]) ELSE Append(out, s),
           <<>>, symbols)

\* Merging one occurrence at a time gives what applying the merges of a trained list
\* one after the other to the whole word gives (bpe.go).
BPEIsMergeByMerge ==
  Answered("bpe") =>
    Out.symbols = FoldLeft(LAMBDA symbols, m : Merged(m, symbols), [i \in DOMAIN In.word |-> <<In.word[i]>>], In.merges)

\* The segments are the text; no special token begins inside a plain one, and a special
\* one is the longest that begins there (special.go).
SpecialsAreIsolated ==
  Answered("tokens") =>
    LET seg == Out.segments
        StartOf(n) == 1 + Len(FlattenSeq([i \in 1..(n - 1) |-> seg[i].text]))
        Begins(t, i) == IsPrefix(t, SubSeq(In.text, i, Len(In.text)))
    IN  /\ FlattenSeq([n \in DOMAIN seg |-> seg[n].text]) = In.text
        /\ \A n \in DOMAIN seg, s \in Specials(In.tk) :
             IF seg[n].special THEN Begins(s, StartOf(n)) => Len(s) <= Len(seg[n].text)
             ELSE \A k \in 0..(Len(seg[n].text) - 1) : ~Begins(s, StartOf(n) + k)

\* With every byte in the vocabulary any text can be encoded, and decoding gives it
\* back, whatever was merged and however it was cut (tokenizer.go, bytes.go).
BytesRoundTrip ==
  /\ Answered("tokens") /\ In.tk.byteEncode => Out.ids # Failed
  /\ Decoded /\ In.tk.byteEncode => Out.text = In.text

\* A text goes into tokens as the trained vocabulary has it, and comes back.
TokensAreTheText == PiecesAreTheRegex /\ BPEIsMergeByMerge /\ SpecialsAreIsolated /\ BytesRoundTrip

\* What is streamed token by token is the text that is returned (conversation.go).
StreamIsTheText ==
  Decoded => Out.streamed = Out.text

(***************************************************************************)
(* Prompts and replies                                                      *)
(***************************************************************************)
\* A reply goes on until its text ends with a stop for the first time, the model ends
\* it, or its length is reached, and is given without that stop (GenerateSteps,
\* trimStopSuffix, the reason that clients see).
ReplyEndsAtTheFirstStop ==
  Answered("reply") =>
    LET n == Len(Out.generated)
        max == IF In.max = 0 THEN DefaultMaxTokens ELSE In.max
        written(k) == FlattenSeq(SubSeq(In.tokens, 1, k))
        stops == {Trim(In.stops[i]) : i \in DOMAIN In.stops} \ {<<>>}
        ends(k) == {s \in stops : \E i \in 0..Len(written(k)) : written(k) = SubSeq(written(k), 1, i) \o s}
    IN  /\ Out.generated = SubSeq(In.tokens, 1, n) /\ n <= max
        /\ \A k \in 1..(n - 1) : ends(k) = {}
        /\ (Out.reason = "length") <=> (n = max /\ ends(n) = {})
        /\ Out.reason = "stop" => ends(n) # {} \/ n = Len(In.tokens)
        /\ IF ends(n) = {} THEN Out.text = written(n) ELSE \E s \in ends(n) : Out.text \o s = written(n)
        /\ (Out.finish = "tool_calls") <=> (Out.reply.calls # <<>>)

\* The stretches of a text from a tag to the first closing one behind it, where no
\* stretch begins within another.
BlocksOf(t, open, close) ==
  {b \in (DOMAIN t) \X (DOMAIN t) :
     /\ b[1] < b[2] /\ t[b[1]] = open /\ t[b[2]] = close
     /\ \A j \in b[1]..(b[2] - 1) : t[j] # close
     /\ \A j \in 1..(b[1] - 1) : t[j] = open => \E k \in j..b[1] : t[k] = close}
Without(t, blocks) ==
  FlattenSeq([i \in DOMAIN t |-> IF \E b \in blocks : i \in b[1]..b[2] THEN <<>> ELSE <<t[i]>>])
Spoken(t) == Trim(Without(t, BlocksOf(t, "think", "unthink")))
AsArray(calls) == <<"[">> \o FlattenSeq([i \in DOMAIN calls |-> IF i = 1 THEN <<calls[i]>> ELSE <<",", calls[i]>>]) \o <<"]">>

\* The calls of a reply are those between its tags, each under a name of its own, and
\* the rest, without thoughts, is its content.  A reply without tags calls only if from
\* its first bracket on it is a call, or an array of calls and nothing else; otherwise
\* all of it is content (ParseAssistantOutput).  Prose before such a call stays in the
\* content; prose behind it should, by the comment of parseLooseJSONToolCalls, and does
\* not (README), so that nothing is claimed of the content where there is some.
CallsAreTheBlocks ==
  Answered("reply") =>
    LET t == Trim(Out.text)
        blocks == BlocksOf(t, "open", "close")
        inside(b) == Trim(SubSeq(t, b[1] + 1, b[2] - 1))
        calling == {b \in blocks : Len(inside(b)) = 1 /\ inside(b)[1] \in Calls}
        called == [i \in DOMAIN Out.reply.calls |-> Out.reply.calls[i].call]
        names == [i \in DOMAIN Out.reply.calls |-> Out.reply.calls[i].id]
        brackets == {i \in DOMAIN t : t[i] \in Braces \cup {"["}}
        from == SubSeq(t, Min(brackets), Len(t))
        prose == SubSeq(t, IF t[1] = "tag" THEN 2 ELSE 1, Min(brackets) - 1)
        behind == IF from[1] \in Calls THEN Trim(Tail(from)) ELSE <<>>
        dense == SelectSeq(from, LAMBDA x : x # Blank)
    IN  /\ \A i, j \in DOMAIN names : i < j => names[i] < names[j]
        /\ IF blocks # {}
           THEN /\ Out.reply.content = Spoken(Trim(Without(t, blocks)))
                /\ Len(called) = Cardinality(calling)
                /\ \A b \in calling : called[Cardinality({c \in calling : c[1] <= b[1]})] = inside(b)[1]
           ELSE IF brackets # {} /\ (from[1] \in Calls \/ \E cs \in BoundedSeq(Calls, 3) \ {<<>>} : dense = AsArray(cs))
           THEN /\ behind = <<>> => Out.reply.content = Spoken(prose)
                /\ IF from[1] \in Calls THEN called = <<from[1]>> ELSE dense = AsArray(called)
           ELSE called = <<>> /\ Out.reply.content = t

\* What the model wrote ends where it should and is understood as it was meant.
RepliesAreReadRight == ReplyEndsAtTheFirstStop /\ CallsAreTheBlocks

\* A reply with calls that is written into a prompt says what it said: read again, it
\* has the same calls and the same content (formatAssistantBody, ParseAssistantOutput).
RepliesRoundTrip ==
  Answered("body") /\ In.calls # <<>> =>
    /\ Out.reply.calls = [i \in DOMAIN In.calls |-> ToolCall(i - 1, In.calls[i])]
    /\ Out.reply.content = Spoken(Trim(In.content))

Prompted == Answered("prompt") \/ Answered("question")
Unrendered == Prompted /\ Out.prompt # Tag("rendered")
Asking == IF job.kind = "prompt" THEN In.messages
          ELSE (IF In.opts.system THEN <<[role |-> "system", text |-> <<"instructions", 0>>]>> ELSE <<>>) \o
               <<[role |-> "user", text |-> <<"message", 1>>]>>
PlacesOf(text) == {i \in DOMAIN Out.prompt : Out.prompt[i] = text}

\* Whatever dialog a prompt is built from without a template, every message of a known
\* role is in it once, and so are the tools, and questions and answers are in their
\* order.
EverythingIsSaidOnce ==
  Unrendered =>
    /\ \A i \in DOMAIN Asking : Asking[i].role \in Roles => Cardinality(PlacesOf(Asking[i].text)) = 1
    /\ \A i, j \in DOMAIN Asking :
         i < j /\ Asking[i].role \in Roles \ {"system"} /\ Asking[j].role \in Roles \ {"system"}
           => Min(PlacesOf(Asking[i].text)) < Min(PlacesOf(Asking[j].text))
    /\ Cardinality(PlacesOf(<<"tools", 0>>)) = IF In.opts.tools THEN 1 ELSE 0

\* Such a prompt ends where the model is to answer; for Llama 2 if a question or the
\* answer of a tool comes last.
AssistantIsAsked ==
  Unrendered =>
    LET said == SelectSeq(Asking, LAMBDA m : m.role \in Roles \ {"system"})
        llama2 == In.file.arch = "llama" /\ ~In.file.three
    IN  \/ llama2 /\ (said = <<>> \/ Last(said).role = "assistant")
        \/ Out.prompt # <<>> /\ Last(Out.prompt)[1] \in {"assistant", "no thought", "[/INST]"}

\* A dialog goes into the prompt whole, its earlier calls included, and asks for an answer.
PromptsAreWhole == EverythingIsSaidOnce /\ AssistantIsAsked /\ RepliesRoundTrip

(***************************************************************************)
(* Models                                                                   *)
(***************************************************************************)
\* What the layers of a model write: width by buffer, per row or once.  phi2 has no gate.
Work(loader, c) ==
  LET latent == "kvLora" \in DOMAIN c
      dense == \E l \in 0..(c.layers - 1) : ~IsMoELayer(c, l)
      moe == \E l \in 0..(c.layers - 1) : IsMoELayer(c, l)
      head == IF latent THEN c.nope + c.rope ELSE c.headDim
      ffn == Max({0} \cup (IF dense THEN {c.ffn} ELSE {}) \cup (IF moe THEN {ExpertFFN(c), c.sharedFFN} ELSE {}))
  IN  [row |-> [x |-> c.emb, h |-> c.emb, q |-> c.heads * head, gate |-> IF loader = "phi2" THEN 0 ELSE ffn, up |-> ffn,
                k |-> IF latent THEN c.kvLora + c.rope ELSE c.kvHeads * head,
                v |-> IF latent THEN c.kvLora ELSE c.kvHeads * head,
                attn |-> c.heads * (IF latent THEN c.vHead ELSE head)],
       once |-> [scores |-> c.ctx, logits |-> c.vocab, router |-> IF moe THEN c.experts ELSE 0]]

\* Every accepted configuration gets buffers that its widest layer fits, be it a dense
\* one, an expert or the shared expert, in a batch as well (config.go and scratch.go).
ScratchFits ==
  Answered("model") /\ Out.outcome = "config" =>
    LET rows == IF Loader(In.file) = "deepseek2" THEN 1 ELSE Rows(In.nBatch)
        Room(name, n) == n <= 0 \/ \E g \in ToSet(Out.arena.given) : g.name = name /\ g.to - g.from >= n
        work == Work(Loader(In.file), Out.cfg)
    IN  /\ \A b \in DOMAIN work.row : Room(b, rows * work.row[b])
        /\ \A b \in DOMAIN work.once : Room(b, work.once[b])

\* No two buffers share an element, and, deepseek2's apart, the arena was made large
\* enough to hold all of them without growing (arena.go, scratch.go).
BuffersApart ==
  Answered("model") /\ Out.outcome = "config" =>
    LET given == Out.arena.given
    IN  /\ \A i, j \in DOMAIN given :
             i < j => \/ given[i].slab # given[j].slab
                      \/ given[i].to <= given[j].from \/ given[j].to <= given[i].from
        /\ Loader(In.file) # "deepseek2" => Out.arena.slab = 0

\* Whatever the shape of the model, its buffers hold what its layers write.
BuffersHoldTheWork == ScratchFits /\ BuffersApart

\* The experts of a token are the most probable ones, best first and of equals the
\* lowest, whether they were found by sorting or in a heap (moe.go).
ExpertsAreTheBest ==
  Answered("experts") =>
    LET p == In.probs
        Better(a, b) == p[a] > p[b] \/ (p[a] = p[b] /\ a < b)
    IN  /\ Len(Out.chosen) = Min({In.used, Len(p)})
        /\ \A i, j \in DOMAIN Out.chosen : i < j => Better(Out.chosen[i], Out.chosen[j])
        /\ \A a \in DOMAIN p \ ToSet(Out.chosen), i \in DOMAIN Out.chosen : Better(Out.chosen[i], a)

\* Every selection of the best returns them, best first.
TopKIsTheTop == TopLogprobsAreTheTop /\ ExpertsAreTheBest

(***************************************************************************)
(* Quantised matrices                                                       *)
(***************************************************************************)
\* Every bit of a block is read for one purpose: as part of one value, of the scale of
\* one group or of the head; only the sums of Q8_K are not read (pkg/quant).
BitsUsedOnce ==
  Answered("block") =>
    LET b == Out
        V == 0..(b.values - 1)
        values == UNION {b.quant[i] : i \in V}
        groups == UNION {b.sub[i] : i \in V}
        bits == 0..(8 * b.bytes - 1)
    IN  /\ b.head \cap (values \cup groups) = {} /\ values \cap groups = {}
        /\ \A i, j \in V : i < j => /\ b.quant[i] \cap b.quant[j] = {}
                                    /\ b.sub[i] = b.sub[j] \/ b.sub[i] \cap b.sub[j] = {}
        /\ \A i \in V : Cardinality(b.quant[i]) = Cardinality(b.quant[0])
        /\ IF In.type = "q8_k" THEN b.head \cup values \subseteq bits ELSE b.head \cup values \cup groups = bits

\* All tables of sizes agree, and so do the two ways to find an expert, the two ways to
\* find a row, and the cut of a fused projection with its rows (gpuresid.go, expert.go,
\* embed.go, ops.go, dtype.go).
PartsAgree ==
  Answered("parts") =>
    LET rows == In.qDim + 2 * In.kvDim
        whole == In.cols % Blocks[In.type].values = 0
        line == DataSize(In.type, In.cols)
        Lines(from, n) == Part(from * line, n * line)
    IN  /\ Out.valid = whole
        /\ \A e \in DOMAIN Out.host :
             Out.device[e] = Out.host[e] /\ Out.host[e] = IF whole THEN {Lines(e * rows, rows)} ELSE {}
        /\ \A r \in DOMAIN Out.gathered :
             Out.gathered[r] = Out.multiplied[r] /\ Out.gathered[r] = IF whole THEN {Lines(r, 1)} ELSE {}
        /\ whole => /\ Out.need = Out.raw /\ Out.floats
                    /\ Out.gateUp = <<Lines(0, In.qDim), Lines(In.qDim, In.qDim)>>
                    /\ Out.qkv = <<Lines(0, In.qDim), Lines(In.qDim, In.kvDim), Lines(In.qDim + In.kvDim, In.kvDim)>>

\* A quantised matrix is read alike wherever it is cut, down to the bits of a block.
MatricesAreReadAlike == BitsUsedOnce /\ PartsAgree

(***************************************************************************)
(* Files                                                                    *)
(***************************************************************************)
Place(m, i) == View(DataAt(m) + m.tensors[i].offset, m.tensors[i].size)
Lost(i) == Place(In.m, i).to > In.cut

\* An entry with a string that begins or ends with white space.
Edged(e) ==
  LET strings == IF e.type # String THEN {} ELSE IF e.array THEN ToSet(e.value) ELSE {e.value}
  IN  \E s \in strings : s # <<>> /\ {s[1], Last(s)} \cap White # {}

\* What a writer wrote is what is read: byte order, metadata, tensors, and for each
\* tensor that the file holds exactly its bytes, from the mapping or copied (reader.go,
\* raw.go, mmap.go).  Strings lose their outer white space, which docs/GGUF-FORMAT.md
\* does not provide for (README): of such an entry only its place is claimed.
TensorsAreFound ==
  /\ Answered("file") /\ In.cut >= Len(Header(In.m)) =>
       /\ Out.opened.ok
       /\ \A i \in DOMAIN In.m.metadata :
            LET e == In.m.metadata[i]
            IN  /\ e.key \in DOMAIN Out.opened.value.metadata
                /\ ~Edged(e) => Out.opened.value.metadata[e.key] = [type |-> IF e.array THEN Array ELSE e.type, value |-> e.value]
       /\ Len(Out.opened.value.tensors) = Len(In.m.tensors)
  /\ Taken =>
       \A i \in DOMAIN In.m.tensors :
         /\ Out.opened.value.tensors[i].name = In.m.tensors[i].name
         /\ Out.opened.value.tensors[i].dims = In.m.tensors[i].dims
         /\ ~Lost(i) => Out.loads[i] = Place(In.m, i)

\* A file that was cut off within its lists is refused.  Of a tensor it lost no bytes are
\* handed out, none beyond its end and none of another tensor: copying it is an error,
\* and taking it from the mapping gives nothing, without an error; then the error comes
\* when it is made into floats or multiplied, which whole tensors never fail to be
\* (reader.go, raw.go, mmap.go, store.go, ops.go).
CutIsNoticed ==
  /\ Answered("file") /\ In.cut < Len(Header(In.m)) => ~Out.opened.ok
  /\ Taken =>
       \A i \in DOMAIN Out.loads :
         /\ Out.loads[i].got = "bytes" => Out.loads[i] = Place(In.m, i) /\ ~Lost(i)
         /\ Lost(i) /\ ~In.mapped => Out.loads[i] = Error
  /\ Tried =>
       \A i \in DOMAIN Out.used :
         /\ Out.used[i].floats <=> ~Lost(i)
         /\ FusedQuantSupported(DTypes[In.m.tensors[i].type]) => (Out.used[i].product <=> ~Lost(i))

\* A file gives what was written into it, or an error, at the latest when it is used.
FilesAreRead == TensorsAreFound /\ CutIsNoticed

(***************************************************************************)
(* Layers                                                                   *)
(***************************************************************************)
\* Every layer has exactly one device, neighbours stay together, a device of no weight
\* has none, and without weights the shares differ by one at most (multi.go).
LayersHaveOneOwner ==
  Answered("layers") =>
    LET b == Out.bounds
        Share(i) == {l \in 0..(In.layers - 1) : b[i] <= l /\ l < b[i + 1]}
        Devices == 0..(In.devices - 1)
        weighted == Len(In.split) = In.devices /\ \E i \in DOMAIN In.split : In.split[i] > 0
    IN  /\ \A i \in Devices : b[i] <= b[i + 1]
        /\ \A l \in 0..(In.layers - 1) : {i \in Devices : l \in Share(i)} = {Out.owner[l]}
        /\ weighted => \A i \in Devices : In.split[i + 1] <= 0 => Share(i) = {}
        /\ ~weighted => \A i, j \in Devices : Cardinality(Share(i)) <= Cardinality(Share(j)) + 1
=============================================================================
