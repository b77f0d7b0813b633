---------------------------- MODULE MCAlgorithms ----------------------------
EXTENDS Algorithms

Texts(alphabet, n) == UNION {[1..k -> alphabet] : k \in 0..n}

\* Logits of up to four tokens with ties.
MCLogits == [0..2 -> 0..2] \cup {(0 :> 0) @@ (1 :> 3) @@ (2 :> 1) @@ (3 :> 0), (0 :> 1) @@ (1 :> 1) @@ (2 :> 1) @@ (3 :> 0)}
MCCuts(temps) == [temp : temps, topK : {0, 1, 2}, topP : {0, 2, 3, 4}, minP : {0, 2}]
MCSample == [logits : MCLogits, cfg : MCCuts({0, 1, 2}), k : {2}] \cup
            [logits : MCLogits, cfg : {[temp |-> 2, topK |-> 0, topP |-> 0, minP |-> 0]}, k : {0, 1, 3, 5}]

\* Even logits and a factor of two: halves stay integers.
MCPenalties ==
  [logits : [0..1 -> {-4, 4, 8}], history : Texts({0, 1, 5}, 3), presence : {0, 2}, repeat : {0, 1, 2}, lastN : {0, 2},
   bias : {<<>>, (1 :> -6)}]

MCPieces == [text : Texts({"a", " ", Newline, "'", "s", "1"}, 4) \cup
                    {<<"'", "r", "e", "a">>, <<"'", "r", "a">>, <<"a", "'", "r", "e", " ", " ", "!", Newline, "a">>}]

\* Merge lists as training gives them: what a merge joins was made before.
Trained(merges) ==
  \A i \in DOMAIN merges :
    /\ \A j \in 1..(i - 1) : merges[j] # merges[i]
    /\ \A p \in {1, 2} : Len(merges[i][p]) = 1 \/ \E j \in 1..(i - 1) : merges[j][1] \o merges[j][2] = merges[i][p]
MCSymbols == {<<"a">>, <<"b">>, <<"a", "a">>, <<"a", "b">>}
MCMerges == {m \in UNION {[1..n -> MCSymbols \X MCSymbols] : n \in 0..2} : Trained(m)}
MCBPE == [merges : MCMerges, word : Texts({"a", "b"}, 5)]

Marker == <<"<", "a", ">">>
ByteTokens == <<<<"a">>, <<"b">>, <<"S">>, <<"<">>, <<">">>>>
MCByteTokenizer ==
  [tokens |-> ByteTokens \o <<<<"S", "a">>, <<"a", "b">>, Marker, Marker \o <<">">>>>,
   merges |-> <<<<<<"S">>, <<"a">>>>, <<<<"a">>, <<"b">>>>>>, byteEncode |-> TRUE]
\* Instructions of Mistral, a vocabulary without merges.
InstOpen == <<"[", "I", "]">>
MCInstructTokenizer ==
  [tokens |-> <<<<"a">>, <<"_", "a">>, <<"[">>, <<"I">>, <<"]">>, <<"/">>, InstOpen, <<"[", "/", "I", "]">>, <<"<", "a">>>>,
   merges |-> <<>>, byteEncode |-> FALSE]
MCTokens ==
  [tk : {MCInstructTokenizer},
   text : {u \o InstOpen \o v : u \in Texts({"a", " ", "["}, 2), v \in Texts({"a", "[", "/", "I", "]"}, 4)}] \cup
  [tk : {MCByteTokenizer},
   text : Texts({"a", " ", "b"}, 4) \cup {u \o Marker \o v : u \in Texts({"a", " ", "<"}, 2), v \in Texts({"a", ">", "<"}, 2)}]

\* A vocabulary of SentencePiece: words with their space.
MCSentencePieces ==
  [tk : {[tokens |-> <<<<"_", "a">>, <<"_", "b">>, <<"a">>, <<"b", "a">>, <<"_">>>>, merges |-> <<>>, byteEncode |-> FALSE],
         [tokens |-> <<<<"_", "a">>, <<"_", "b">>, <<"b">>>>, merges |-> <<>>, byteEncode |-> FALSE]},
   text : Texts({"a", "b", " "}, 4)]

\* Replies: every mixture of tags, thoughts and calls, of brackets, and of stops.
MCWords ==
  Texts({"a", Blank, "open", "close", "f()", "{}"}, 5) \cup Texts({"a", "think", "unthink", "open", "close", "g()"}, 5) \cup
  Texts({"[", "]", ",", "f()", "g()"}, 5) \cup Texts({"tag", "a", "f()", "{", Blank, "[", "]", "think", "unthink"}, 4)
MCReplies ==
  [tokens : {<<t>> : t \in MCWords}, stops : {<<>>}, max : {0}] \cup
  [tokens : Texts({<<"a">>, <<"b">>, <<"a", "b">>, <<Blank, "b", "b">>}, 3), max : {0, 2},
   stops : {<<>>, <<<<Blank>>>>, <<<<"b">>, <<"a", "b">>>>, <<<<"a", "b">>>>, <<<<"b", "a">>, <<"a", Blank>>>>}]
MCBodies == [content : Texts({"a", Blank, "think", "unthink"}, 4), calls : Texts(Calls, 2)]

\* Prompts: every dialog of up to three messages, without a template or with one that fails.
Model(arch, three, mistral) == [arch |-> arch, three |-> three, mistral |-> mistral]
Templates(template, toolUse) == [template : template, toolUse : toolUse]
MCPromptFiles(templates) ==
  {m @@ t : m \in {Model("qwen3", FALSE, FALSE), Model("mistral", FALSE, FALSE)} \cup
                  {Model("llama", three, mistral) : three, mistral \in BOOLEAN},
            t \in templates}
Dialogs(n) ==
  {[i \in DOMAIN roles |-> [role |-> roles[i], text |-> <<"message", i>>]] : roles \in Texts(Roles \cup {"developer"}, n) \ {<<>>}}
MCPrompts ==
  [file : MCPromptFiles(Templates({"none", "error"}, {"none"})), messages : Dialogs(3),
   opts : [system : {FALSE}, tools : BOOLEAN, thinking : {FALSE}]] \cup
  [file : MCPromptFiles(Templates({"none", "error", "prompt", "empty"}, {"none", "error", "prompt"})), messages : Dialogs(1),
   opts : [system : {FALSE}, tools : BOOLEAN, thinking : BOOLEAN]]
\* With a system text, formats for which FormatUser gives it once (README, findings).
MCQuestions ==
  {[file |-> f, opts |-> [system |-> s, tools |-> FALSE, thinking |-> FALSE]] :
     f \in {f \in MCPromptFiles(Templates({"none", "error"}, {"none"})) : ~isMistralMeta(f)}, s \in BOOLEAN} \cup
  [file : MCPromptFiles(Templates({"none", "prompt", "empty"}, {"none"})),
   opts : [system : {FALSE}, tools : {FALSE}, thinking : BOOLEAN]]

\* Metadata: -1 stands for a key that is missing.
Given(md) == [k \in {k \in DOMAIN md : md[k] # -1} |-> md[k]]
Sized == [ctx : {3}, emb : {8}, ffn : {6}, layers : {2}, rows : {8}, columns : {5}]
Merge(a, b) == {Given(x @@ y) : x \in a, y \in b}
Attention == Merge(Sized, [heads : {0, 2, 3}, kvHeads : {-1, 0, 1}, keyLength : {-1, 5}])
Mixture == [experts : {-1, 0, 3}, used : {-1, 1, 4}, expertFFN : {-1, 2, 7}, sharedFFN : {-1, 9}]
Lead == [experts : {-1, 3}, used : {-1, 1, 4}, expertFFN : {-1, 2, 7}, shared : {-1, 2}, lead : {-1, 1, 2}]
Latent == [heads : {2}, kvLora : {-1, 4}, qLora : {-1, 3}, rope : {2}, keyLengthMLA : {-1, 6}, valueLengthMLA : {-1, 3}]
File(arch, name, md) == [arch |-> arch, name |-> name, mistralWindow |-> FALSE, md |-> md]
MCFiles ==
  {File(a, "", md) : a \in {"llama", "phi2", "phi3", "gemma", "gemma2", "bert"}, md \in Attention \cup {<<>>}} \cup
  {File("llama", "mixtral", md) : md \in Merge(Attention, [window : {-1, 2}])} \cup
  {File("llama", "", md) : md \in Merge(Merge(Sized, [heads : {2}, kvHeads : {1}, window : {2}]), Mixture)} \cup
  {File(a, "", md) : a \in {"mistral", "qwen2", "qwen2moe", "qwen3", "qwen3moe"},
                     md \in Merge(Merge(Sized, [heads : {2}, kvHeads : {1}]), Mixture)} \cup
  {File("deepseek", "", md) : md \in Merge(Merge(Sized, [heads : {2}, kvHeads : {1}]), Lead)} \cup
  {File("deepseek2", "", md) : md \in Merge(Merge(Sized, Latent), Lead)} \cup
  {File("llama", "", md) : md \in Merge([ctx : {3}, emb : {8}, ffn : {6}, layers : {1}, heads : {2}, kvHeads : {1}],
                                        [rows : {-1, 8, 5}, columns : {8, 4}])}
MCModels == [file : MCFiles, nBatch : {0, 2}]

MCExperts == [probs : UNION {[1..n -> 0..2] : n \in 0..5}, used : {0, 1, 2}] \cup [probs : [1..8 -> 0..1], used : {2, 9}]

MCParts == [type : DOMAIN Blocks, qDim : {1, 2}, kvDim : {1}, cols : {32, 64, 256, 40}, experts : {1, 3}]

Tensor(name, type, dims, offset, size) == [name |-> name, dims |-> dims, type |-> type, offset |-> offset, size |-> size]
Value(key, type, value) == [key |-> key, array |-> FALSE, type |-> type, value |-> value]
Values(key, type, value) == [key |-> key, array |-> TRUE, type |-> type, value |-> value]
MCMetadata ==
  {<<>>, <<Value(AlignmentKey, Uint32, 8), Value(<<66>>, Bool, 1), Value(<<67, 68>>, String, <<69, 32, 70>>)>>,
   <<Values(<<66>>, String, <<<<70>>, <<71, 71>>>>), Value(<<67>>, 10, 300), Values(<<68>>, 3, <<>>)>>,
   <<Value(<<66>>, Bool, 0), Value(<<67>>, String, <<32, 69, 10>>), Values(<<68>>, String, <<<<70>>, <<32>>>>), Value(<<69>>, String, <<71>>)>>}
Aligned(metadata) == IF \E i \in DOMAIN metadata : metadata[i].key = AlignmentKey THEN 8 ELSE 32
MCWritten ==
  {[order |-> o, metadata |-> md, tensors |-> ts, alignment |-> Aligned(md)] :
     o \in {"little", "big"}, md \in MCMetadata,
     ts \in {<<Tensor(<<72>>, 0, <<3>>, 0, 12), Tensor(<<73, 74>>, 8, <<32, 2>>, 32, 68)>>}}
MCOpened == UNION {[m : {m}, bytes : {Written(m)}, cut : 0..Len(Written(m)), mapped : BOOLEAN] : m \in MCWritten}

MCLayers == UNION {[layers : 0..5, devices : {n}, split : {<<>>} \cup [1..n -> -1..2]] : n \in 1..3}

MCJobs ==
  [penalties |-> MCPenalties, sample |-> MCSample, pieces |-> MCPieces, bpe |-> MCBPE, tokens |-> MCTokens,
   reply |-> MCReplies, body |-> MCBodies, prompt |-> MCPrompts, question |-> MCQuestions,
   model |-> MCModels, experts |-> MCExperts, block |-> [type : DOMAIN Blocks], parts |-> MCParts, file |-> MCOpened,
   layers |-> MCLayers]
StreamJobs == [tokens |-> MCSentencePieces]
=============================================================================
