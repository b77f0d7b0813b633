------------------------- MODULE CompletionService -------------------------
(***************************************************************************)
(* What the completion endpoints promise: a service without memory.  A     *)
(* request carries its whole prompt; each token of the answer is sampled   *)
(* from the model's output for exactly that prompt and the tokens before   *)
(* it; one request is worked on at a time.  Sessions, the KV cache, resets *)
(* and replays do not appear: InferenceServer implements this module.      *)
(***************************************************************************)
EXTENDS Conversation

CONSTANTS Handlers, Prompts, Tokens, MaxTokens, NoContext

VARIABLES
  phase,   \* of each request slot
  asked,   \* the prompt
  answer,  \* tokens generated so far
  context  \* the rows the next token is sampled from

vars == <<phase, asked, answer, context>>

Init ==
  /\ phase = [h \in Handlers |-> "idle"]
  /\ asked = [h \in Handlers |-> <<>>]
  /\ answer = [h \in Handlers |-> <<>>]
  /\ context = [h \in Handlers |-> NoContext]

Submit(h, p) ==
  /\ phase[h] = "idle"
  /\ phase' = [phase EXCEPT ![h] = "queued"]
  /\ asked' = [asked EXCEPT ![h] = p]
  /\ UNCHANGED <<answer, context>>

Begin(h) ==
  /\ phase[h] = "queued"
  /\ asked[h] # <<>>
  /\ \A g \in Handlers : phase[g] # "sampling"
  /\ phase' = [phase EXCEPT ![h] = "sampling"]
  /\ context' = [context EXCEPT ![h] = Entries(asked[h], 0)]
  /\ UNCHANGED <<asked, answer>>

Emit(h, t) ==
  /\ phase[h] = "sampling"
  /\ Len(answer[h]) < MaxTokens
  /\ answer' = [answer EXCEPT ![h] = Append(@, t)]
  /\ context' = [context EXCEPT ![h] = Entries(asked[h] \o answer'[h], 0)]
  /\ UNCHANGED <<phase, asked>>

Serve(h) ==
  /\ phase[h] = "sampling"
  /\ phase' = [phase EXCEPT ![h] = "served"]
  /\ context' = [context EXCEPT ![h] = NoContext]
  /\ UNCHANGED <<asked, answer>>

Fail(h) ==
  /\ phase[h] \in {"queued", "sampling"}
  /\ phase' = [phase EXCEPT ![h] = "failed"]
  /\ answer' = [answer EXCEPT ![h] = <<>>]
  /\ context' = [context EXCEPT ![h] = NoContext]
  /\ UNCHANGED asked

Done(h) ==
  /\ phase[h] \in {"served", "failed"}
  /\ phase' = [phase EXCEPT ![h] = "idle"]
  /\ asked' = [asked EXCEPT ![h] = <<>>]
  /\ answer' = [answer EXCEPT ![h] = <<>>]
  /\ UNCHANGED context

Next ==
  \E h \in Handlers :
    \/ \E p \in Prompts : Submit(h, p)
    \/ Begin(h)
    \/ \E t \in Tokens : Emit(h, t)
    \/ Serve(h)
    \/ Fail(h)
    \/ Done(h)

Spec == Init /\ [][Next]_vars

=============================================================================
