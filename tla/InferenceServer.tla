-------------------------- MODULE InferenceServer --------------------------
(***************************************************************************)
(* The HTTP server of pkg/server on top of runtime.Conversation: every     *)
(* request of one process shares one model, hence one KV cache, under the  *)
(* mutex inferMu.  kvConv names the conversation whose history the cache   *)
(* holds; a request of another one replays its history (ensureKV), and an  *)
(* embeddings request empties the cache.                                   *)
(*                                                                         *)
(* A handler is a goroutine that serves one request after another.  A      *)
(* model call (Forward) is one step; it can fail at the call sites listed  *)
(* in FaultPoints and then leaves any prefix of its rows in the cache.     *)
(***************************************************************************)
EXTENDS Conversation, FiniteSets

CONSTANTS
  Handlers,     \* goroutines serving requests
  SessionIDs,   \* session keys; Anonymous is a request without one
  Anonymous,
  Convs,        \* *Conversation pointers
  NoConv,       \* nil
  Free,         \* inferMu unlocked
  NoLogits,     \* nil logits
  Tokens,       \* vocabulary
  Prompts,      \* encoded prompts the clients send
  CtxLen,       \* Engine.ContextLength()
  MaxTokens,    \* GenerateParams.MaxTokens
  FaultPoints   \* call sites at which Forward may return an error

ASSUME PromptsAssumption == Prompts \subseteq Seq(Tokens)
ASSUME LimitsAssumption == CtxLen \in Nat \ {0} /\ MaxTokens \in Nat \ {0}
ASSUME FaultAssumption ==
  FaultPoints \subseteq {"load", "prefill", "decode", "rollback"}
ASSUME DistinctAssumption ==
  /\ NoConv \notin Convs
  /\ Free \notin Handlers
  /\ NoLogits \notin Seq([tok : Tokens, pos : Nat])

VARIABLES
  mem, len,     \* Conversation.tokens, per conversation
  lastLogits,   \* Conversation.lastLogits, as the rows they were computed from
  kv,           \* the model's KV cache
  sessions,     \* Server.sessions
  inferMu,      \* owner of Server.inferMu
  kvConv,       \* Server.kvConv
  pc,           \* where each handler is
  conv,         \* the handler's conversation
  prompt,       \* the handler's encoded prompt
  gen,          \* GenerationSession.generated
  logits,       \* GenerationSession.logits, as the rows they come from
  snap,         \* the token count a rollback returns to
  status        \* what the handler answers

convVars == <<mem, len, lastLogits>>
reqVars == <<conv, prompt, gen, logits, snap, status>>
vars == <<mem, len, lastLogits, kv, sessions, inferMu, kvConv, pc,
          conv, prompt, gen, logits, snap, status>>

History(c) == Live(mem[c], len[c])

Rows == [tok : Tokens, pos : Nat]

Critical == {"ensure", "start", "decode", "commit", "rollback",
             "embed", "embedding", "reply"}

PCs == {"idle", "waiting", "waitingEmbed"} \cup Critical

TypeOK ==
  /\ mem \in [Convs -> Seq(Tokens)]
  /\ len \in [Convs -> Nat]
  /\ \A c \in Convs : len[c] <= Len(mem[c])
  /\ lastLogits \in [Convs -> Seq(Rows) \cup {NoLogits}]
  /\ kv \in Seq(Rows)
  /\ sessions \in [SessionIDs \ {Anonymous} -> Convs \cup {NoConv}]
  /\ inferMu \in Handlers \cup {Free}
  /\ kvConv \in Convs \cup {NoConv}
  /\ pc \in [Handlers -> PCs]
  /\ conv \in [Handlers -> Convs \cup {NoConv}]
  /\ prompt \in [Handlers -> Seq(Tokens)]
  /\ gen \in [Handlers -> Seq(Tokens)]
  /\ logits \in [Handlers -> Seq(Rows) \cup {NoLogits}]
  /\ snap \in [Handlers -> Nat]
  /\ status \in [Handlers -> {"none", "ok", "error"}]

Init ==
  /\ mem = [c \in Convs |-> <<>>]
  /\ len = [c \in Convs |-> 0]
  /\ lastLogits = [c \in Convs |-> NoLogits]
  /\ kv = <<>>
  /\ sessions = [s \in SessionIDs \ {Anonymous} |-> NoConv]
  /\ inferMu = Free
  /\ kvConv = NoConv
  /\ pc = [h \in Handlers |-> "idle"]
  /\ conv = [h \in Handlers |-> NoConv]
  /\ prompt = [h \in Handlers |-> <<>>]
  /\ gen = [h \in Handlers |-> <<>>]
  /\ logits = [h \in Handlers |-> NoLogits]
  /\ snap = [h \in Handlers |-> 0]
  /\ status = [h \in Handlers |-> "none"]

-----------------------------------------------------------------------------
(* Accepting a request: everything up to inferMu.Lock. *)

\* A pointer nobody holds: a new Conversation never has the address of one
\* that the sessions map, a running handler or kvConv still refers to.
Unreferenced(c) ==
  /\ \A s \in SessionIDs \ {Anonymous} : sessions[s] # c
  /\ \A h \in Handlers : conv[h] # c
  /\ kvConv # c

\* newConversation, as handler h obtains it.
NewConversation(h, c) ==
  /\ Unreferenced(c)
  /\ mem' = [mem EXCEPT ![c] = <<>>]
  /\ len' = [len EXCEPT ![c] = 0]
  /\ lastLogits' = [lastLogits EXCEPT ![c] = NoLogits]
  /\ conv' = [conv EXCEPT ![h] = c]

\* conversationForSession: look up or insert under sessionsMu.
ConversationForSession(h, s) ==
  \/ /\ s = Anonymous
     /\ \E c \in Convs : NewConversation(h, c)
     /\ UNCHANGED sessions
  \/ /\ s # Anonymous
     /\ sessions[s] # NoConv
     /\ conv' = [conv EXCEPT ![h] = sessions[s]]
     /\ UNCHANGED <<sessions, convVars>>
  \/ /\ s # Anonymous
     /\ sessions[s] = NoConv
     /\ \E c \in Convs :
          /\ NewConversation(h, c)
          /\ sessions' = [sessions EXCEPT ![s] = c]

Accept(h, s, p) ==
  /\ pc[h] = "idle"
  /\ ConversationForSession(h, s)
  /\ pc' = [pc EXCEPT ![h] = "waiting"]
  /\ prompt' = [prompt EXCEPT ![h] = p]
  /\ UNCHANGED <<kv, inferMu, kvConv, gen, logits, snap, status>>

AcceptEmbeddings(h, p) ==
  /\ pc[h] = "idle"
  /\ pc' = [pc EXCEPT ![h] = "waitingEmbed"]
  /\ prompt' = [prompt EXCEPT ![h] = p]
  /\ UNCHANGED <<convVars, kv, sessions, inferMu, kvConv, conv, gen, logits,
                 snap, status>>

\* Mutant: the handler does not wait for inferMu.
LockIgnored(h) ==
  /\ pc[h] = "waiting"
  /\ inferMu' = h
  /\ pc' = [pc EXCEPT ![h] = "ensure"]
  /\ UNCHANGED <<convVars, kv, sessions, kvConv, reqVars>>

Lock(h) ==
  /\ pc[h] = "waiting"
  /\ inferMu = Free
  /\ inferMu' = h
  /\ pc' = [pc EXCEPT ![h] = "ensure"]
  /\ UNCHANGED <<convVars, kv, sessions, kvConv, reqVars>>

-----------------------------------------------------------------------------
(* A chat or text completion, with inferMu held. *)

Answer(h, s) ==
  /\ pc' = [pc EXCEPT ![h] = "reply"]
  /\ status' = [status EXCEPT ![h] = s]

\* ensureKV when the cache already holds the conversation.
EnsureKVHit(h) ==
  /\ pc[h] = "ensure"
  /\ kvConv = conv[h]
  /\ pc' = [pc EXCEPT ![h] = "start"]
  /\ UNCHANGED <<convVars, kv, sessions, inferMu, kvConv, reqVars>>

\* ensureKV: LoadKVCache replays the history, then kvConv is this one.
EnsureKVLoad(h) ==
  /\ pc[h] = "ensure"
  /\ kvConv # conv[h]
  /\ kv' = Entries(History(conv[h]), 0)
  /\ lastLogits' =
       [lastLogits EXCEPT ![conv[h]] = IF len[conv[h]] = 0 THEN NoLogits ELSE kv']
  /\ kvConv' = conv[h]
  /\ pc' = [pc EXCEPT ![h] = "start"]
  /\ UNCHANGED <<mem, len, sessions, inferMu, reqVars>>

\* ensureKV when the replay fails: the cache was reset and holds part of the
\* history, kvConv is left as it was.
EnsureKVFails(h) ==
  /\ "load" \in FaultPoints
  /\ pc[h] = "ensure"
  /\ kvConv # conv[h]
  /\ len[conv[h]] > 0
  /\ \E n \in 0..len[conv[h]] :
       kv' = Entries(SubSeq(mem[conv[h]], 1, n), 0)
  /\ lastLogits' = [lastLogits EXCEPT ![conv[h]] = NoLogits]
  /\ Answer(h, "error")
  /\ UNCHANGED <<mem, len, sessions, inferMu, kvConv, conv, prompt, gen,
                 logits, snap>>

\* Mutant: an early return that does not unlock.
StartRefusedLocked(h) ==
  /\ pc[h] = "start"
  /\ pc' = [pc EXCEPT ![h] = "idle"]
  /\ conv' = [conv EXCEPT ![h] = NoConv]
  /\ prompt' = [prompt EXCEPT ![h] = <<>>]
  /\ UNCHANGED <<convVars, kv, sessions, inferMu, kvConv, gen, logits, snap,
                 status>>

\* startGeneration rejects a prompt that does not fit, and the streaming
\* handlers a connection that cannot flush: nothing is touched.
StartRefused(h) ==
  /\ pc[h] = "start"
  /\ Answer(h, "error")
  /\ UNCHANGED <<convVars, kv, sessions, inferMu, kvConv, conv, prompt, gen,
                 logits, snap>>

\* The conversation and cache startGeneration continues from: Reset when the
\* prompt does not extend the history.
Resets(h) ==
  /\ len[conv[h]] > 0
  /\ ShouldResetConversation(len[conv[h]], History(conv[h]), prompt[h])

Cached(h) == IF Resets(h) THEN 0 ELSE len[conv[h]]

\* Mutants: Reset forgets the model's cache, or the cached logits.
BaseKVKept(h) == kv
BaseLogitsKept(h) == lastLogits[conv[h]]

BaseKV(h) == IF Resets(h) THEN <<>> ELSE kv

BaseLogits(h) == IF Resets(h) THEN NoLogits ELSE lastLogits[conv[h]]

\* Mutant: the whole prompt is prefilled and not the part after the history.
WholePrompt(h) == prompt[h]

NewTokens(h) == SubSeq(prompt[h], Cached(h) + 1, Len(prompt[h]))

Starting(h) == pc[h] = "start" /\ Len(prompt[h]) <= CtxLen

\* startGeneration with tokens to prefill; snap is the handler's
\* conv.TokenCount() of just before.
Prefill(h) ==
  /\ Starting(h)
  /\ NewTokens(h) # <<>>
  /\ kv' = BaseKV(h) \o Entries(NewTokens(h), Cached(h))
  /\ mem' = [mem EXCEPT ![conv[h]] = Extend(@, Cached(h), NewTokens(h))]
  /\ len' = [len EXCEPT ![conv[h]] = Len(prompt[h])]
  /\ lastLogits' = [lastLogits EXCEPT ![conv[h]] = kv']
  /\ logits' = [logits EXCEPT ![h] = kv']
  /\ snap' = [snap EXCEPT ![h] = len[conv[h]]]
  /\ pc' = [pc EXCEPT ![h] = "decode"]
  /\ UNCHANGED <<sessions, inferMu, kvConv, conv, prompt, gen, status>>

\* The prefill fails, with some of its rows in the cache or, when the model has
\* reset the cache itself, with none: startGeneration rolls back to prevLen, the
\* length after the reset, and the handler does not roll back itself.
PrefillFails(h) ==
  /\ "prefill" \in FaultPoints
  /\ Starting(h)
  /\ NewTokens(h) # <<>>
  /\ \/ kv' = <<>>
     \/ \E n \in 0..Len(NewTokens(h)) :
          kv' = BaseKV(h) \o Entries(SubSeq(NewTokens(h), 1, n), Cached(h))
  /\ len' = [len EXCEPT ![conv[h]] = Cached(h)]
  /\ lastLogits' = [lastLogits EXCEPT ![conv[h]] = BaseLogits(h)]
  /\ snap' = [snap EXCEPT ![h] = Cached(h)]
  /\ pc' = [pc EXCEPT ![h] = "rollback"]
  /\ UNCHANGED <<mem, sessions, inferMu, kvConv, conv, prompt, gen, logits,
                 status>>

\* An empty delta with cached logits: nothing to forward.
EmptyDelta(h) ==
  /\ Starting(h)
  /\ NewTokens(h) = <<>>
  /\ Cached(h) > 0
  /\ lastLogits[conv[h]] # NoLogits
  /\ logits' = [logits EXCEPT ![h] = lastLogits[conv[h]]]
  /\ snap' = [snap EXCEPT ![h] = len[conv[h]]]
  /\ pc' = [pc EXCEPT ![h] = "decode"]
  /\ UNCHANGED <<convVars, kv, sessions, inferMu, kvConv, conv, prompt, gen,
                 status>>

\* An empty prompt, or an empty delta without logits.  The reset, if there
\* was one, has been done.
StartEmptyFails(h) ==
  /\ Starting(h)
  /\ NewTokens(h) = <<>>
  /\ Cached(h) = 0 \/ lastLogits[conv[h]] = NoLogits
  /\ kv' = BaseKV(h)
  /\ len' = [len EXCEPT ![conv[h]] = Cached(h)]
  /\ lastLogits' = [lastLogits EXCEPT ![conv[h]] = BaseLogits(h)]
  /\ Answer(h, "error")
  /\ UNCHANGED <<mem, sessions, inferMu, kvConv, conv, prompt, gen, logits,
                 snap>>

\* GenerateSteps ends: the sampler gave no token or EOS.
DecodeEnd(h) ==
  /\ pc[h] = "decode"
  /\ pc' = [pc EXCEPT ![h] = "commit"]
  /\ UNCHANGED <<convVars, kv, sessions, inferMu, kvConv, reqVars>>

\* DecodeStepWith appends the token to generated before anything can fail.
Position(h) == Len(prompt[h]) + Len(gen[h])

\* A step of the decode loop; it ends at a stop sequence or at MaxTokens.
DecodeToken(h, t) ==
  /\ pc[h] = "decode"
  /\ Position(h) < CtxLen
  /\ gen' = [gen EXCEPT ![h] = Append(@, t)]
  /\ kv' = kv \o Entries(<<t>>, Position(h))
  /\ logits' = [logits EXCEPT ![h] = kv']
  /\ \/ /\ Len(gen'[h]) < MaxTokens
        /\ UNCHANGED pc
     \/ pc' = [pc EXCEPT ![h] = "commit"]
  /\ UNCHANGED <<convVars, sessions, inferMu, kvConv, conv, prompt, snap,
                 status>>

\* The context is full, or Forward fails with or without the row written, or
\* with the cache reset.
DecodeFails(h, t) ==
  /\ pc[h] = "decode"
  /\ gen' = [gen EXCEPT ![h] = Append(@, t)]
  /\ \/ Position(h) >= CtxLen /\ UNCHANGED kv
     \/ /\ "decode" \in FaultPoints
        /\ Position(h) < CtxLen
        /\ kv' \in {kv, <<>>, kv \o Entries(<<t>>, Position(h))}
  /\ pc' = [pc EXCEPT ![h] = "rollback"]
  /\ UNCHANGED <<convVars, sessions, inferMu, kvConv, conv, prompt, logits,
                 snap, status>>

Commit(h) ==
  /\ pc[h] = "commit"
  /\ mem' = [mem EXCEPT ![conv[h]] = Extend(@, len[conv[h]], gen[h])]
  /\ len' = [len EXCEPT ![conv[h]] = @ + Len(gen[h])]
  /\ lastLogits' = [lastLogits EXCEPT ![conv[h]] = logits[h]]
  /\ Answer(h, "ok")
  /\ UNCHANGED <<kv, sessions, inferMu, kvConv, conv, prompt, gen, logits,
                 snap>>

\* rollback: tokens[:snap] of the backing array, a reset cache, a replay.
Rollback(h) ==
  /\ pc[h] = "rollback"
  /\ LET saved == SubSeq(mem[conv[h]], 1, snap[h])
     IN  /\ kv' = Entries(saved, 0)
         /\ mem' = [mem EXCEPT ![conv[h]] = IF snap[h] = 0 THEN @ ELSE saved]
  /\ len' = [len EXCEPT ![conv[h]] = snap[h]]
  /\ lastLogits' =
       [lastLogits EXCEPT ![conv[h]] = IF snap[h] = 0 THEN NoLogits ELSE kv']
  /\ Answer(h, "error")
  /\ UNCHANGED <<sessions, inferMu, kvConv, conv, prompt, gen, logits, snap>>

\* The replay fails too: the history is dropped, the cache keeps the rows that
\* were written, kvConv still names this conversation.
RollbackFails(h) ==
  /\ "rollback" \in FaultPoints
  /\ pc[h] = "rollback"
  /\ snap[h] > 0
  /\ \E n \in 0..snap[h] : kv' = Entries(SubSeq(mem[conv[h]], 1, n), 0)
  /\ len' = [len EXCEPT ![conv[h]] = 0]
  /\ lastLogits' = [lastLogits EXCEPT ![conv[h]] = NoLogits]
  /\ Answer(h, "error")
  /\ UNCHANGED <<mem, sessions, inferMu, kvConv, conv, prompt, gen, logits,
                 snap>>

-----------------------------------------------------------------------------
(* Embeddings: kvConv is cleared, then Model.Embed runs for each input. *)

\* Mutant: embeddings leave kvConv as it was.
LockEmbeddingsKeepsKVConv(h) ==
  /\ pc[h] = "waitingEmbed"
  /\ inferMu = Free
  /\ inferMu' = h
  /\ pc' = [pc EXCEPT ![h] = "embed"]
  /\ UNCHANGED <<convVars, kv, sessions, kvConv, reqVars>>

LockEmbeddings(h) ==
  /\ pc[h] = "waitingEmbed"
  /\ inferMu = Free
  /\ inferMu' = h
  /\ kvConv' = NoConv
  /\ pc' = [pc EXCEPT ![h] = "embed"]
  /\ UNCHANGED <<convVars, kv, sessions, reqVars>>

\* Embed resets the cache and fills it with the input's rows, or some of them
\* when it fails; the cache has CtxLen rows.
Embed(h) ==
  /\ pc[h] = "embed"
  /\ prompt[h] # <<>>
  /\ \E n \in 0..Len(prompt[h]) :
       /\ n <= CtxLen
       /\ kv' = Entries(SubSeq(prompt[h], 1, n), 0)
       /\ status' = [status EXCEPT ![h] = IF n = Len(prompt[h]) THEN "ok" ELSE "error"]
  /\ pc' = [pc EXCEPT ![h] = "embedding"]
  /\ UNCHANGED <<convVars, sessions, inferMu, kvConv, conv, prompt, gen,
                 logits, snap>>

\* Its deferred ResetCache; the handler goes on to the next input or answers.
EmbedReset(h) ==
  /\ pc[h] = "embedding"
  /\ kv' = <<>>
  /\ \/ pc' = [pc EXCEPT ![h] = "reply"]
     \/ /\ status[h] = "ok"
        /\ pc' = [pc EXCEPT ![h] = "embed"]
  /\ UNCHANGED <<convVars, sessions, inferMu, kvConv, reqVars>>

\* An input without tokens fails before the cache is touched.
EmbedEmpty(h) ==
  /\ pc[h] = "embed"
  /\ prompt[h] = <<>>
  /\ Answer(h, "error")
  /\ UNCHANGED <<convVars, kv, sessions, inferMu, kvConv, conv, prompt, gen,
                 logits, snap>>

-----------------------------------------------------------------------------
\* The handler returns: the deferred Unlock, and its locals die.
Reply(h) ==
  /\ pc[h] = "reply"
  /\ inferMu' = Free
  /\ pc' = [pc EXCEPT ![h] = "idle"]
  /\ conv' = [conv EXCEPT ![h] = NoConv]
  /\ prompt' = [prompt EXCEPT ![h] = <<>>]
  /\ gen' = [gen EXCEPT ![h] = <<>>]
  /\ logits' = [logits EXCEPT ![h] = NoLogits]
  /\ snap' = [snap EXCEPT ![h] = 0]
  /\ status' = [status EXCEPT ![h] = "none"]
  /\ UNCHANGED <<convVars, kv, sessions, kvConv>>

EnsureKV(h) == EnsureKVHit(h) \/ EnsureKVLoad(h) \/ EnsureKVFails(h)

StartGeneration(h) ==
  StartRefused(h) \/ Prefill(h) \/ PrefillFails(h) \/ EmptyDelta(h)
  \/ StartEmptyFails(h)

GenerateSteps(h) ==
  DecodeEnd(h) \/ \E t \in Tokens : DecodeToken(h, t) \/ DecodeFails(h, t)

Embeddings(h) == Embed(h) \/ EmbedReset(h) \/ EmbedEmpty(h)

\* What a handler does while it holds inferMu.
Work(h) ==
  EnsureKV(h) \/ StartGeneration(h) \/ GenerateSteps(h) \/ Commit(h)
  \/ Rollback(h) \/ RollbackFails(h) \/ Embeddings(h) \/ Reply(h)

Arrive(h) ==
  \E p \in Prompts :
    AcceptEmbeddings(h, p) \/ \E s \in SessionIDs : Accept(h, s, p)

Next ==
  \E h \in Handlers : Arrive(h) \/ Lock(h) \/ LockEmbeddings(h) \/ Work(h)

Spec == Init /\ [][Next]_vars

\* A goroutine that holds the lock keeps running, and sync.Mutex hands the
\* lock to a goroutine that waits for more than 1 ms: no waiter is passed over
\* forever.  An embeddings request has finitely many inputs.
Fairness ==
  \A h \in Handlers :
    /\ WF_vars(Work(h))
    /\ SF_vars(Lock(h))
    /\ SF_vars(LockEmbeddings(h))
    /\ SF_vars(pc[h] = "embedding" /\ EmbedReset(h) /\ pc'[h] = "reply")

FairSpec == Spec /\ Fairness

-----------------------------------------------------------------------------
(* Properties. *)

\* At most one request uses the model at a time (engine.go, Options/Engine
\* comment: one Forward in flight per Engine), and it is the one that holds
\* inferMu: no early return leaves the lock or gives it up too soon.
OneForwardInFlight ==
  \A h \in Handlers : pc[h] \in Critical <=> inferMu = h

\* Server.kvConv (server.go:36): between requests, the conversation kvConv
\* names has exactly the history the model's cache holds, row by row, at the
\* positions 0, 1, 2, ...
KVCoherent ==
  (inferMu = Free /\ kvConv # NoConv) => kv = Entries(History(kvConv), 0)

\* The cache is transparent: whatever other requests, resets, replays and
\* failures came before, a token is sampled from logits of exactly the
\* request's own prompt and the tokens generated so far.
DecodeOwnContext ==
  \A h \in Handlers :
    pc[h] = "decode" => logits[h] = Entries(prompt[h] \o gen[h], 0)

\* The logits a conversation keeps for an empty delta (conversation.go:177)
\* are those of its current history, never of an older one.
LastLogitsFresh ==
  \A c \in Convs :
    lastLogits[c] # NoLogits =>
      /\ len[c] > 0
      /\ lastLogits[c] = Entries(History(c), 0)

\* A request answered with success leaves its conversation with the prompt and
\* the answer, whether the prompt extended the history or replaced it.
CommittedHistory ==
  \A h \in Handlers :
    (pc[h] = "reply" /\ status[h] = "ok" /\ conv[h] # NoConv) =>
      History(conv[h]) = prompt[h] \o gen[h]

\* The slice expression tokens[:tokenLen] of rollback stays in the capacity of
\* the slice, although tokenLen may be larger than its length.
RollbackInBounds ==
  \A h \in Handlers : pc[h] = "rollback" => snap[h] <= Len(mem[conv[h]])

\* The refinement mapping to CompletionService.  An embeddings request is not
\* one of its requests: such a handler is idle there.
Phase(h) ==
  CASE pc[h] \in {"waiting", "ensure", "start"} -> "queued"
    [] pc[h] \in {"decode", "commit"} -> "sampling"
    [] pc[h] = "reply" /\ conv[h] # NoConv /\ status[h] = "ok" -> "served"
    [] pc[h] = "rollback" -> "failed"
    [] pc[h] = "reply" /\ conv[h] # NoConv /\ status[h] = "error" -> "failed"
    [] OTHER -> "idle"

Service == INSTANCE CompletionService WITH
  phase <- [h \in Handlers |-> Phase(h)],
  asked <- [h \in Handlers |-> IF Phase(h) = "idle" THEN <<>> ELSE prompt[h]],
  answer <- [h \in Handlers |->
               IF Phase(h) \in {"sampling", "served"} THEN gen[h] ELSE <<>>],
  context <- [h \in Handlers |->
                IF Phase(h) = "sampling" THEN logits[h] ELSE NoLogits],
  NoContext <- NoLogits

\* The server with its shared cache behaves like a service that has none.
ImplementsService == Service!Spec

\* Every request that was accepted is answered.
EveryRequestAnswered ==
  \A h \in Handlers :
    (pc[h] \in {"waiting", "waitingEmbed"}) ~> (pc[h] = "idle")

=============================================================================
