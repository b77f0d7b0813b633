-------------------------------- MODULE Chat --------------------------------
(***************************************************************************)
(* pkg/chat, with the stop texts of pkg/runtime/session.go and the server:  *)
(* from a dialog to the prompt, and from what the model writes to the reply. *)
(*                                                                         *)
(* A text is a sequence of lexemes: the tags "open" and "close" of a tool    *)
(* call, "think" and "unthink" of a thought, "tag" (python_tag), brackets    *)
(* and commas, " " for white space, a call (a JSON object with a name),      *)
(* another JSON object "{}", a brace "{" that begins none, and words.        *)
(***************************************************************************)
EXTENDS Integers, Sequences, SequencesExt

Calls == {"f()", "g()"}
Braces == Calls \cup {"{}", "{"}
Blank == " "

Trim(text) ==
  LET ink == {i \in DOMAIN text : text[i] # Blank}
  IN  IF ink = {} THEN <<>> ELSE SubSeq(text, Min(ink), Max(ink))

(***************************************************************************)
(* The reply (parse_tools.go, tools.go)                                     *)
(***************************************************************************)
\* The first place from i on with this lexeme; 0 if there is none.
First(text, lexeme, i) ==
  LET places == {j \in i..Len(text) : text[j] = lexeme} IN IF places = {} THEN 0 ELSE Min(places)

\* Mutant: a block ends at the last tag that closes one.
ClosedByLast(text, close, from) ==
  LET places == {j \in (from + 1)..Len(text) : text[j] = close} IN IF places = {} THEN 0 ELSE Max(places)
\* A block ends at the first one (.*? of the expressions).
ClosedBy(text, close, from) == First(text, close, from + 1)

\* FindAllStringSubmatchIndex
Matches(text, open, close) ==
  LET m[i \in 1..(Len(text) + 1)] ==
        LET from == First(text, open, i)
            to == ClosedBy(text, close, from)
        IN  IF from = 0 \/ to = 0 THEN <<>> ELSE <<[from |-> from, to |-> to]>> \o m[to + 1]
  IN  m[1]
Outside(text, matches) ==
  FlattenSeq([i \in DOMAIN text |-> IF \E k \in DOMAIN matches : i \in matches[k].from..matches[k].to
                                    THEN <<>> ELSE <<text[i]>>])
stripThinkBlocks(text) == Trim(Outside(text, Matches(text, "think", "unthink")))

ToolCall(index, call) == [id |-> index, call |-> call]
parseToolCallJSON(raw, index) ==
  IF Len(raw) = 1 /\ raw[1] \in Calls THEN <<ToolCall(index, raw[1])>> ELSE <<>>

\* The values of an array that is all of the text.
Items(raw) ==
  LET s == SelectSeq(raw, LAMBDA x : x # Blank)
      n == Len(s)
  IN  IF /\ n >= 3 /\ n % 2 = 1 /\ s[1] = "[" /\ s[n] = "]"
         /\ \A i \in 2..(n - 1) : (i % 2 = 1) <=> s[i] = ","
      THEN [i \in 1..(n \div 2) |-> s[2 * i]] ELSE <<>>

\* What follows an object is not looked at.
parseLooseJSONToolCalls(text) ==
  LET body == IF text # <<>> /\ text[1] = "tag" THEN Trim(Tail(text)) ELSE text
      starts == {i \in DOMAIN body : body[i] \in Braces \cup {"["}}
      start == Min(starts)
      values == IF body[start] = "[" THEN Items(SubSeq(body, start, Len(body))) ELSE <<body[start]>>
  IN  IF starts = {} \/ values = <<>> \/ ~(ToSet(values) \subseteq Calls) THEN <<>>
      ELSE <<[content |-> stripThinkBlocks(SubSeq(body, 1, start - 1)),
              calls |-> [i \in DOMAIN values |-> ToolCall(i - 1, values[i])]]>>

ParseAssistantOutput(reply) ==
  LET text == Trim(reply)
      found == Matches(text, "open", "close")
      inside(i) == Trim(SubSeq(text, found[i].from + 1, found[i].to - 1))
      loose == parseLooseJSONToolCalls(text)
  IN  IF found # <<>>
      THEN [content |-> stripThinkBlocks(Trim(Outside(text, found))),
            calls |-> FlattenSeq([i \in DOMAIN found |-> parseToolCallJSON(inside(i), i - 1)])]
      ELSE IF loose # <<>> THEN loose[1] ELSE [content |-> text, calls |-> <<>>]

\* A line ends before a call.
LineEnded(body) == IF body # <<>> /\ Last(body) # Blank THEN Append(body, Blank) ELSE body

\* How a reply is written into the next prompt.
formatAssistantBody(msg) ==
  FoldLeft(LAMBDA body, call : LineEnded(body) \o <<"open", Blank, call, Blank, "close">>, msg.content, msg.calls)

(***************************************************************************)
(* The end of a reply (session.go, chat_completions.go)                     *)
(***************************************************************************)
DefaultMaxTokens == 128

EndsWith(text, stop) == IsSuffix(stop, text)

hitStopSequence(text, stops) == \E i \in DOMAIN stops : Trim(stops[i]) # <<>> /\ EndsWith(text, Trim(stops[i]))
trimStopSuffix(text, stops) ==
  LET hits == {i \in DOMAIN stops : Trim(stops[i]) # <<>> /\ EndsWith(text, Trim(stops[i]))}
  IN  IF hits = {} THEN text ELSE SubSeq(text, 1, Len(text) - Len(Trim(stops[Min(hits)])))

\* GenerateSteps, when the model is to write these tokens and then the end.
Generated(tokens, stops, maxTokens) ==
  LET max == IF maxTokens <= 0 THEN DefaultMaxTokens ELSE maxTokens
      step(s, i) ==
        IF s.reason = "stop" THEN s
        ELSE IF i > Len(tokens) THEN [s EXCEPT !.reason = "stop"]
        ELSE LET generated == Append(s.generated, tokens[i])
             IN  [generated |-> generated,
                  reason |-> IF hitStopSequence(FlattenSeq(generated), stops) THEN "stop" ELSE "length"]
  IN  FoldLeft(step, [generated |-> <<>>, reason |-> "length"], [i \in 1..Min({max, Len(tokens) + 1}) |-> i])

(***************************************************************************)
(* The prompt (messages.go, template.go, render.go, llama.go, mistral.go)   *)
(*                                                                         *)
(* A prompt is a sequence of pairs: marks such as <<"user", 0>>, and texts:  *)
(* <<"message", i>>, <<"instructions", 0>> for Options.System, <<"tools", 0>>.      *)
(* A file is a record: arch; three, a vocabulary of Llama 3; mistral, a       *)
(* llama file that says it is one; template and toolUse, what rendering      *)
(* the templates in its metadata gives.  Contents are not empty.             *)
(***************************************************************************)
Roles == {"system", "user", "assistant", "tool"}
Tag(mark) == <<<<mark, 0>>>>
Content(msg) == <<msg.text>>
IfThere(there, mark) == IF there THEN Tag(mark) ELSE <<>>

toolsSystemPreamble(opts) == Tag("tools") \o IfThere(opts.system, "instructions")
writeBlock(role, body) == Tag(role) \o body \o Tag("end")
writeAssistantPrompt(opts) == Tag("assistant") \o IfThere(~opts.thinking, "no thought")

renderChatML(messages, opts) ==
  (IF opts.tools THEN writeBlock("system", toolsSystemPreamble(opts)) ELSE <<>>) \o
  FlattenSeq([i \in DOMAIN messages |->
    IF messages[i].role \in Roles THEN writeBlock(messages[i].role, Content(messages[i])) ELSE <<>>]) \o
  writeAssistantPrompt(opts)

OfRole(messages, role) == SelectSeq(messages, LAMBDA m : m.role = role)
collectSystemPrompt(messages, opts) ==
  LET parts == OfRole(messages, "system")
  IN  IF parts = <<>> THEN IfThere(opts.system, "instructions") ELSE [i \in DOMAIN parts |-> parts[i].text]

formatLlama3(messages, opts) ==
  Tag("bos") \o
  writeBlock("system", collectSystemPrompt(messages, opts) \o
                       (IF opts.tools THEN toolsSystemPreamble([opts EXCEPT !.system = FALSE]) ELSE <<>>)) \o
  FlattenSeq([i \in DOMAIN messages |->
    IF messages[i].role \in Roles \ {"system"} THEN writeBlock(messages[i].role, Content(messages[i])) ELSE <<>>]) \o
  Tag("assistant")

Instruction(body) == Tag("[INST]") \o body \o Tag("[/INST]")

\* Mutant: the instructions are given again.
ConsumedNot(system) == system
\* The instructions are part of the first question.
Consumed(system) == <<>>

formatLlama2Instruct(messages, opts) ==
  LET all == collectSystemPrompt(messages, opts) \o (IF opts.tools THEN toolsSystemPreamble(opts) ELSE <<>>)
      step(s, msg) ==
        CASE msg.role = "user" ->
               [out |-> s.out \o Tag("bos") \o Instruction((IF s.first THEN s.system ELSE <<>>) \o Content(msg)),
                system |-> IF s.first THEN Consumed(s.system) ELSE s.system, first |-> FALSE]
          [] msg.role = "assistant" -> [s EXCEPT !.out = @ \o Content(msg) \o Tag("eos")]
          [] msg.role = "tool" -> [s EXCEPT !.out = @ \o Tag("bos") \o Instruction(Content(msg)), !.first = FALSE]
          [] OTHER -> s
      end == FoldLeft(step, [out |-> <<>>, system |-> all, first |-> TRUE], messages)
  IN  end.out \o (IF end.system = <<>> THEN <<>> ELSE Tag("bos") \o Instruction(end.system))

\* The last message asks for an answer.
Asked(messages) ==
  LET said == SelectSeq(messages, LAMBDA m : m.role # "system")
  IN  said # <<>> /\ Last(said).role = "user"

formatMistralInstruct(messages, opts) ==
  LET parts == OfRole(messages, "system")
      all == IfThere(opts.system, "instructions") \o [i \in DOMAIN parts |-> parts[i].text] \o
             (IF opts.tools THEN toolsSystemPreamble(opts) ELSE <<>>)
      step(s, msg) ==
        CASE msg.role = "user" -> [out |-> s.out \o Instruction(s.system \o Content(msg)), system |-> <<>>]
          [] msg.role = "assistant" -> [s EXCEPT !.out = @ \o Content(msg) \o Tag("eos")]
          [] msg.role = "tool" -> [s EXCEPT !.out = @ \o Instruction(Content(msg))]
          [] OTHER -> s
      end == FoldLeft(step, [out |-> Tag("bos"), system |-> all], messages)
  IN  end.out \o (IF end.system # <<>> THEN Instruction(end.system)
                  ELSE IF Asked(messages) THEN <<>> ELSE Instruction(<<>>))

isMistralMeta(file) == file.arch = "mistral" \/ (file.arch = "llama" /\ file.mistral)
formatLlamaFallback(file, messages, opts) ==
  IF file.three THEN formatLlama3(messages, opts) ELSE formatLlama2Instruct(messages, opts)

\* What a template gives: a prompt, nothing, or an error; "none" if the file has none.
SelectChatTemplate(file, opts) == IF opts.tools /\ file.toolUse # "none" THEN file.toolUse ELSE file.template
Render(file, messages, opts) ==
  LET outcome == SelectChatTemplate(file, opts)
  IN  IF outcome = "error"
      THEN IF isMistralMeta(file) THEN formatMistralInstruct(messages, opts)
           ELSE IF file.arch = "llama" THEN formatLlamaFallback(file, messages, opts)
           ELSE renderChatML(messages, opts)
      ELSE IF outcome = "prompt" THEN Tag("rendered") ELSE <<>>
Rendered(file, messages, opts) == IF file.template = "none" THEN <<>> ELSE Render(file, messages, opts)

FormatMessages(file, messages, opts) ==
  IF messages = <<>> THEN <<>>
  ELSE IF Rendered(file, messages, opts) # <<>> THEN Rendered(file, messages, opts)
  ELSE IF file.arch = "llama" THEN formatLlamaFallback(file, messages, opts)
  ELSE renderChatML(messages, opts)

\* One question, for users of the library.
FormatUser(file, opts) ==
  LET messages == (IF opts.system THEN <<[role |-> "system", text |-> <<"instructions", 0>>]>> ELSE <<>>) \o
                  <<[role |-> "user", text |-> <<"message", 1>>]>>
  IN  IF Rendered(file, messages, opts) # <<>> THEN Rendered(file, messages, opts)
      ELSE IF isMistralMeta(file) THEN formatMistralInstruct(messages, opts)
      ELSE IF file.arch = "llama" THEN formatLlamaFallback(file, messages, opts)
      ELSE renderChatML(messages, [opts EXCEPT !.tools = FALSE])
=============================================================================
