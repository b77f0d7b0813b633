# A verification of gogguf

gogguf runs GGUF language models in Go: a library (`gogguf.go`, `pkg/runtime`),
an HTTP server (`pkg/server`), a command line (`cmd/gogguf`), CPU, CUDA and
Metal back ends (`pkg/device`). This directory holds TLA+ modules translated
from its source, the TLC configurations that check them on small instances, and
proofs that the TLA+ proof system checks for instances of every size.
`PROJECT.json` is the index: components, runs, the lines each definition
stands for, the hazards, what the checks found.

Contents: 1 inventory, 2 plan, 3 modules and the code, 4 runs, bounds and
fairness, 5 proofs, 6 findings, 7 what is not modelled.

## 1. Inventory

How a request flows: `pkg/server` accepts it, picks a `runtime.Conversation`,
takes the one inference mutex, brings the model's KV cache to that conversation,
and runs a `runtime.GenerationSession` (prefill, then decode steps). Each step
calls `model.Forward`, which goes through the layers, either on the host
(`pkg/compute`, with the worker pool of `pkg/compute/vec`) or resident on a
device (`pkg/exec`, `pkg/device`), appends keys and values to the KV cache of
`pkg/model/mempool` and to its mirror on the device, and returns logits that
`pkg/runtime/sampler` turns into a token. Weights come from `pkg/format` (GGUF)
through `pkg/weights`; prompts from `pkg/chat` and `pkg/tokenizer`; the file
itself, if it is named by a Hub repository, from `pkg/hf`.

| component | state it keeps | operations | hard behaviour | what makes it correct |
|---|---|---|---|---|
| HTTP inference (`pkg/server`: server, chat_completions, completions, embeddings) | `sessions`, `sessionsMu`, `inferMu`, `kvConv` | accept, look up a session, lock, `ensureKV`, generate, commit or roll back, embed | many goroutines, one cache; failures in the middle; a session used by two requests | a token is sampled from its own request's context; `kvConv` tells the truth; every request is answered and the mutex is released |
| Conversation, GenerationSession (`pkg/runtime`) | token slice (array and length), `lastLogits`, generated tokens | Reset, LoadKVCache, startGeneration, DecodeStep, Commit, Rollback | slices that are resliced up and down; a rollback whose replay fails; empty deltas | history = what was prompted and answered; cached logits belong to it; the cache has its rows |
| Rate limiter (`pkg/server/ratelimit.go`) | buckets per client, `lastSweep` | allow, sweep | the clock is read outside the mutex; buckets are forgotten | burst + rate bound every window; forgetting is invisible |
| Hub cache (`pkg/hf`) | the files `blobs/oid.tmp`, `blobs/oid`, `snapshots/...` | resume, download, rename, link or copy | crashes, broken connections, several processes | a returned path names the whole file |
| KV cache (`pkg/model/mempool`) | layer buffers, token counts, write positions | Append, Bump, Advance, DropOldest, EnsureRoom, Reset | two-phase append per layer; a full window; a layer that fails half way | all layers hold the same positions; no row outside the buffer |
| Layers (`pkg/model/*`: qwen3, llama, mistral, gemma, phi2, phi3, deepseek, deepseek2) | KV cache, `GPUKVStale`, `CPUKVHollow`, offload flags | Forward, Embed, ResetCache | a device operation fails in the middle of a block and the block is run again on the host | every layer's rows are appended once, the hidden state is that of the right layer |
| Residency (`pkg/exec/gpuresid`, `dispatch`, `prefill`, `moe`) | where the hidden state and the KV rows live | upload, download, recover, mirror | host and device copies disagree after a failure | attention never reads a stale mirror |
| Several devices (`pkg/device/multi.go`, `mla.go`, `cuda/peer.go`) | layer bounds, the current device, pairs that cannot copy | split, route, move the hidden state, upload, `KVCacheInit` | a peer copy or a bounce through the host that fails in the middle | every layer has one owner; the hidden state is on exactly one device |
| Weight cache (`pkg/device/cuda/weight_cache.go`) | matrices by recency, caps, captured graphs | load, touch, evict, retry after eviction, set limits | eviction while a fused operation holds pointers; graphs that embed them | a matrix in use is never freed; no graph outlives its matrices; the memory is not exceeded |
| CUDA backend (`pkg/device/cuda`) | hidden state, uploaded vector, attention left in it, KV rows, expert snapshot | products, fused QKV / attention / FFN, KV append, experts, MLA, logits | a vector recognised by its address; a flag that only the next operation clears | kernels read the vectors and rows the model means |
| Row loops (`pkg/compute/vec`, `pkg/compute/attention`) | job channel, wait groups, pool of score buffers | ParallelForWork, ParallelForRowsErr | a full channel, many callers, errors while other chunks run | a call is the loop it replaces and is over when it returns |
| Weights, GGUF (`pkg/weights`, `pkg/format`) | mapped file, tensor index | open, metadata, tensors, bytes of a tensor | offsets, alignment, files cut off anywhere | a tensor's bytes are those that were written, or an error |
| Quantisation (`pkg/quant`, `pkg/dtype`, users in `pkg/exec`, `pkg/compute`) | - | sizes, blocks, rows, experts, fused slices | bit layouts; the same arithmetic in five places | every bit is read once; all ways to cut a tensor agree |
| Model configuration (`pkg/model/*/config.go`, `scratch.go`, `mempool`) | the scratch arena | choose a loader, parse metadata, size buffers, route experts | missing, zero and odd metadata; batches; shared experts | every buffer holds what the widest layer writes |
| Tokenizer (`pkg/tokenizer`) | vocabulary, merges | pretokenise, merge, special tokens, decode | order of merges, markers within text, token-by-token decoding | decode undoes encode, streamed or not |
| Chat (`pkg/chat`) | - | format a dialog, parse tool calls, strip thoughts | system texts, tools, roles; unclosed and nested tags | a prompt says every message once; a reply is read as it was written |
| Template interpreter (`pkg/chat/jinja`) | - | parse, render | - | not modelled; its outcome is an input of Chat |
| Sampler (`pkg/runtime/sampler`) | random source | penalties, temperature, top-k, top-p, min-p | ties, all candidates cut | exactly the tokens no cut removes can be drawn |
| Engine, CLI, server life cycle (`pkg/runtime/engine.go`, `cmd/gogguf`, `server.Run`) | `Engine.Model`, the listener | load, serve, shut down, close | a shutdown that gives up after five seconds while a handler still generates | the engine is not closed under a running request |
| `pkg/debug`, `cmd/tools`, `web-ui` | dumps, converters, the browser client | - | - | not part of the inference path |

The hazards, each at its line, are in `PROJECT.json`.

## 2. Plan

Ordered by what the system promises its clients; each module is written so that
it can be proved about (constants with named assumptions, one action per
operation, no RECURSIVE operator).

1. `Conversation`, `CompletionService`, `InferenceServer`: the server and its
   shared cache, and the memoryless service it implements. *Done, with proofs.*
2. `RateLimiter`, `HFCache`: the other two parts whose correctness is about
   interleavings and time, or crashes. *Done.*
3. `ResidentForward` (the layers of qwen3, the KV cache of mempool and the device
   with its failures): what the server module takes as one step called Forward.
   *Done, with proofs.*
4. `ForwardState` and one module for each other architecture, composed in
   `Architectures`: windows, experts, latent attention. *Done, with proofs.*
5. `LayerSplit`, `WeightCache`, `CudaBackend`, `MultiDevice`, composed in
   `DeviceForward`: what items 3 and 4 take as one device that may fail. *Done.*
6. `Parallel`, the worker pool. *Done.*
7. The pure parts, composed in `Algorithms`: `Sampling`, `Tokenizer`, `Chat`,
   `ModelConfig`, `QuantLayout`, `GGUFFile`. *Done.*
8. Proofs. *Done*: the cache coherence of the server and the refinement of
   `CompletionService`, the layers and the two copies of the KV with `AnswerRight` of
   qwen3 and of the seven other architectures, the limiter, the Hub cache for a process that works alone, the worker
   pool, the weight cache with its books, the place of the hidden state, and of the pure parts
   the split of the layers and the cuts of a tensor. Section 5 says what is left to TLC and why.

How they fit:

    CompletionService  <--implements--  InferenceServer  --extends-->  Conversation
                                              | one step Forward
              ResidentForward (qwen3)         |        Architectures
                                              |        = ForwardState + Llama, Mistral, Gemma,
                                              |          Phi3, Phi2, Deepseek, Deepseek2
                                              | device calls
              DeviceForward  =  MultiDevice  =  CudaBackend + WeightCache + LayerSplit
              Algorithms  =  Sampling + Tokenizer + Chat + ModelConfig + QuantLayout
                             + GGUFFile + LayerSplit
              Parallel, RateLimiter, HFCache      on their own

Each level takes the next one as an operation with a set of outcomes, and the
next one is checked by itself: a Forward may leave any prefix of its rows; a
device call succeeds, or fails and leaves what the device module says it
leaves. That keeps every level small enough to explore.

## 3. Modules and the code

**Conversation.** The data of `runtime.Conversation`. A Go slice is a backing
array `mem` and a live length `len`, because `tokens[:0]` followed by
`tokens[:n]` makes old elements live again and the code does both. A row of the
KV cache is `[tok, pos]`: the token and the rotary position it was given. That
is all the properties tell apart: two caches with equal rows give equal logits.

**InferenceServer.** Variables are the fields of `Server` (`sessions`,
`inferMu`, `kvConv`), of each `Conversation` (`mem`, `len`, `lastLogits`), the
model's cache `kv`, and the locals of each handler. Logits are the rows they
were computed from. A handler's places are `idle`, `waiting` (before
`inferMu.Lock`), then inside the mutex `ensure` (ensureKV), `start`
(startGeneration), `decode`, `commit`, `rollback`, `reply`, and `embed`,
`embedding` for embeddings. Each action is a stretch of the handler between two
points at which something can fail or another handler can see the state: since
all of `ensure` to `reply` runs under one mutex, what other handlers can
observe is only the session lookup of `Accept`, which the mutex does not cover.
`FaultPoints` names the call sites at which Forward may fail; a failing call
leaves any prefix of its rows in the cache, or an empty one. Chat and text completions, streamed
or not, are the same actions: they differ in encoding only, except for the
check for a flusher (`StartRefused`). A conversation of a request without a
session is a pointer that becomes free again once nobody refers to it
(`Unreferenced`, the garbage collector): `kvConv` refers to it, so its address
cannot come back while the cache is still said to be its.

**CompletionService.** The abstract specification: a request carries its
prompt, each token is sampled from exactly that prompt and the tokens before
it, one request at a time. No sessions, no cache.

**RateLimiter.** `Arrive` reads the clock, `Allow` is the critical section with
the sweep, the refill, the cap and the decision. Tokens are counted in
sixtieths, so the refill of a whole number of seconds is exact; the rounding of
the code's float64 is not modelled. `log` is a history variable for the
properties.

**HFCache.** A step is one system call of `ensureDownloaded`, `downloadFile`,
`replaceFile` or `finalizeFile`, or one chunk of a body or a copy. Names
(`tmp`, `blob`, `final`) point to inodes; a snapshot may be a symbolic link, a
hard link or a copy. What the file system supports is chosen in `Init`.
`Crash` closes the process's files and keeps what it wrote; `Fails` is a broken
connection or a full disk; `Again` is the next run of the command. `Machines`
are the environments: links, processes, faults.

**ResidentForward.** A `forwardToken` or `forwardBatch` of dense qwen3 layers,
one action per layer. The state is in two memories. On the host: the hidden
state `run.x` and the mirror `kv`. On the device: `dev.kv` and the resident
hidden state `dev.resid`, valid while `dev.active`. Between them: `decode`, the
flags of `gpuresid.DecodeFlags` that say which copy counts (`residDevice`,
`stale`, `hollow`), with `Model.residency` and `logitsOnGPU`. What is
computed is abstracted to where it came from: a hidden state is a position and a number of
layers, or `NoHidden` when it is neither; a slot of the mirror is `right`,
`hollow` (reserved by `Bump`, never written) or `junk`; the device holds a set
of positions whose rows are right. `Apply` gives the next hidden state if its
input is the one this layer expects and attention read only right rows. `Init`
chooses how many layers are on the device, how many positions its KV has
and which device calls may fail (`FaultKinds`). A layer is tried in the code's
order: `forwardBlockDevice`; when that fails over a complete mirror,
`tryRecoverGPUKV` and `recoverHiddenFromDevice` and the host path; on the host
path the fused QKV, and if that fails host rows, their mirroring and
attention. Callers reset the cache after a failed call, so `failed` is
left by `ResetCache` only.

**ForwardState, Llama, Mistral, Gemma, Phi3, Phi2, Deepseek, Deepseek2, Architectures.**
The same subject for the other models, with what is theirs: the sliding window
(`DropOldest`, `EnsureRoom`, `prepareSWAAppend`), layers of experts and the
shared expert, the latent cache (absorbed, or legacy), and how each reacts to
each failing call, in which they differ a lot. A row of the mirror is the position
it was computed for, so a window that dropped rows is told apart from one that
lost some. `ForwardState` has the state and the steps all loaders share (they
are copies of each other in the code, and `map` names llama's); an architecture
module has its `Load`, its layer as a set of outcomes (`forwardBlock`,
`forwardBlockBatch`) and its `Next`. `Architectures` loads one of them
and goes on, after a panic, with a new process.

**WeightCache, CudaBackend, LayerSplit, MultiDevice, DeviceForward.** The device
itself. `WeightCache` is the list of matrices by recency, and what leaves it.
`CudaBackend` gives for each operation the set of its outcomes: what was
uploaded, evicted, launched, and how it failed. A vector is a
`Content`: the token, the layer and the stage it was computed for; the code
recognises an uploaded vector by the address of its buffer (`lastVec`), so does
the model, and `KernelsReadTheirInputs` compares the content behind the
address with what the model code means. `MultiDevice` routes an operation to the
device of its layer and takes the hidden state there, by peer copy or through
the host. `DeviceForward` makes the calls of four families of models in the
order of the code, with their fallbacks, while another goroutine evicts
matrices and changes caps between two operations.

**Parallel.** `ParallelForWork` and `ParallelForRowsErr`: a caller sends
chunks into a channel that may be full, the workers compute a row per step, an
error is kept by the first compare-and-swap, `wg.Wait` ends the call. The buffers
of scores of `attention.go` are the pool that a running job takes one from.

**Algorithms.** One behaviour is one call of a part without state: a job is picked
in `Init`, the answer is written by the action. The modules behind it:
`Sampling` (penalties and the chain of cuts; probabilities are integers,
shares are quarters, ties are broken in every way an unstable sort may),
`Tokenizer` (pretokeniser, BPE, special tokens, the byte alphabet, decoding at
once and token by token), `Chat` (all prompt formats without a template, the
parser of tool calls; a text is a sequence of lexemes), `ModelConfig` (loader,
hyperparameters, scratch arena, router), `QuantLayout` (each block format as sets
of bits, each table of sizes, each way to cut a tensor), `GGUFFile` (a file as bytes,
read as the code reads it, its tensors taken from the mapping or copied, made into floats and multiplied) and `LayerSplit`. The
properties are definitions of what is to be computed that do not follow the
code: a sampler draws what no cut removes, what was encoded decodes to the
text, merging goes merge by merge over the whole word, the bits of a block are
partitioned. Where the code does not do what a document says, the property claims the part that
holds and exempts the rest by name: temperature 0 with top-k or top-p (`DrawsAreTheSurvivors`), prose
behind a loose call (`CallsAreTheBlocks`), strings of metadata with outer blanks (`Edged` in
`TensorsAreFound`). The jobs have all three cases, which section 6 reports.

## 4. Runs, bounds, fairness

| run | instance | shows |
|---|---|---|
| server | 2 handlers, 3 conversation pointers, one session and requests without one, 2 prompts of which one extends the other and answers that diverge from both, a context of 3, prefill and decode may fail | the cache is what `kvConv` says, also when conversations are dropped and their addresses reused; tokens come from their own request's rows; cached logits are fresh; the server implements `CompletionService` |
| server_faults | 2 handlers on one session, every call may fail, the empty prompt included, a context of 2, fairness | one Forward at a time, answered requests are in the history, no slice out of bounds, every request is answered |
| rate_window | 2 clients, 2 concurrent requests, 4 decisions, 632 s of clock | `WindowBound`, invisible sweeps |
| hf_resume | 3 chunks; one process with 3 crashes or errors over symbolic or hard links, with 3 errors where there are no links; two processes over symbolic links; fairness | `CachedIntact`: resume is right, the blob and the returned path are whole; every run ends; retries succeed |
| resident | 2 layers, `-ngl` 0 to 2, a context of 4, chunks of 2, a device KV of 2 or 4 positions; no device call fails, or all may, or all but append and attention | the layers stay together, both copies are what the flags say, what is returned without an error is right |
| architectures | 39 loaded models over seven loaders: 2 layers, a context of 4 (1 for resident deepseek2), chunks of 1 or 2, windows of 2, experts, and failing calls as listed below | `AnswerRight`, `MirrorsKept` (both copies are what the flags say), no failure unprovoked, also where only part of the layers or rows fit the device |
| devices | 35 configurations: 2 layers on 1 to 3 devices, conversations of up to 3 tokens, four families, memories of 12, 18 and 100 units, caps, one failing call (two lost KV appends) | eviction spares what a fused operation holds, graphs use live weights, the cache keeps its books, one device has the hidden state, kernels read what the model means |
| parallel | 2 callers, 2 workers, 2 calls each of 1 or 3 rows, any rows failing, fairness | a call is the loop it replaces; errors are returned; scores are private; every call returns |
| algorithms | 161,077 states: bounded inputs of each call, see below | nine properties, one or more of each pure module |

The runs resident_stale, deepseek2_resident and stream_text are expected to
fail; section 6 says of what.

Why the bounds are enough. Two handlers are the least that interleave; a session and
a request without one evict each other from the cache; a handler
serves any number of requests, so histories of any shape the prompts allow come
up, and the contexts of 2 and 3 tokens are small enough that prompts reach them
and decoding runs into them. Three pointers are needed where two anonymous
handlers each hold one while `kvConv` keeps a third. The limiter's clock passes
both the sweep period (300 s) and the age at which a bucket is forgotten
(600 s); two requests per client overtake each other. `MaxLag` bounds the time
between the clock and the mutex. Three chunks tell an empty, a partial and a
nearly complete file apart. Two layers are the least that can be split between
device and host and in which a failure comes before, between and after layers;
a context of 4 has two whole chunks, or a chunk and tokens, or an odd
remainder; a device KV of 2 is outgrown in prefill and in decode; a window of 2 is
outgrown twice within 4.

architectures restricts the faults where the code is known to go wrong, so that
the run says that nothing else does: `OfLayers` (layer operations, products, logits,
hidden state, experts) for models that are resident or that ignore a lost append;
`OfKV` (append and attention as well) where the loader looks at them; none with
an outgrown device KV or with a batch behind gemma's window. `Covered` says in general which
models these are, the run checks that each of its models is one (`ConfigsAreCovered`), and
the proofs are about all of them (section 5). devices restricts `can` in the same way:
where products are not fused, or are the fallback of what is, only the failures
that do not leave a stale `lastVec`. Each restriction is a finding of section 6,
and the MC modules keep the value that violates a property.

devices: `weightProtect` is the code's 8; a layer has up to 12 matrices, a norm
takes 1 unit and a product 2, so 12 units are too few for 9 matrices (uploads fail although
older ones could go), 18 make every layer evict the one before it, 100 hold all. Three
tokens are a prompt, a token over its rows and a token after that, so that graphs are
captured, replayed and dropped. It has no liveness: the number of steps of a token is bounded by the program,
and deadlock is not checked because a conversation ends at 3 tokens. parallel has one
place per worker in the channel instead of four, so that it fills up with two
callers; the shortest cut loop has 2 rows. Its deadlock check is off because callers stop
after `MaxCalls`; `EveryCallReturns` excludes that they stop within a call.

algorithms: texts of up to 4 or 5 characters over the classes of characters the code tells
apart, and some longer markers; logits of 3 and 4 tokens with ties; every merge list of
length 2 that a training can have made; every dialog of up to three messages of any role for six
formats; replies of up to 5 lexemes; metadata with each key missing or with a
value at its boundary; every block format; matrices with one and three
experts and a width that is no multiple of the block; GGUF files of both byte orders
and four kinds of metadata, with a tensor of floats and one of Q8_0 blocks, cut off after every byte. `MaxScalars` bounds the
scalars read in one go, `Huge` stands for all numbers that can only fail. A behaviour
is one call, so this run has no deadlock check.

Symmetry is over handlers, session keys, conversations (and requests, clients),
which are model values that no action distinguishes; runs with liveness
properties do not use it.

Fairness. `server_faults` assumes weak fairness of each handler's own steps and
strong fairness of taking the mutex: Go's mutex hands itself to a waiter that
has waited for a millisecond, so no waiter starves. It does not assume that a
client sends a request. The decode loop ends by `MaxTokens`; that an
embeddings request has finitely many inputs is a strong fairness of its last one. `hf_resume` assumes that a running process goes on and that a user whose
command failed runs it again; faults are bounded, that is, they stop. `parallel` assumes
that the scheduler runs each worker and each caller that can run (weak fairness) and that a blocked send
is served in its turn (strong fairness: a Go channel queues its senders).

## 5. Proofs

`InferenceServerProofs` begins with the lemmas about slices and rows: what `Extend`
keeps live, that rows of a concatenation are the concatenation of the rows, that the
rest of an extended prompt follows the history. It proves, for every set of handlers, sessions,
conversations, tokens, prompts and limits (from the assumptions that `InferenceServer`
names, and no other):

- whatever fails (`Bounds` is the inductive invariant): `TypeOK`,
  `OneForwardInFlight`, `CommittedHistory`, `RollbackInBounds`. `Bounds` adds to
  them what each place relies on: a handler past `Accept` has a conversation, in
  `decode` and `commit` the history is exactly the prompt, and in `decode` and
  `rollback` the snapshot lies within the backing array, although not
  within the live length;
- if no replay fails (`ReplaysSucceed`: "load" and "rollback" are not in
  `FaultPoints`): `KVCoherent`, `DecodeOwnContext`, `LastLogitsFresh`. `Coherent`
  is the inductive invariant. The properties are not inductive because
  the cache is allowed to differ from the history while a handler is inside;
  `Coherent` says by place what the cache holds: the history before `start`,
  prompt and generated tokens in `decode` and `commit`, and that cached logits
  of every conversation, also of those not in the cache, are those of its
  history. The condition is needed: with `LoadFaults` or `AllFaults` of
  `MCInferenceServer` TLC finds both properties violated (section 6).

It ends with the refinement `ImplementsService`, under the same condition
`ReplaysSucceed`. The mapping is `Phase` and the fields of a handler;
`Simulated` says that a step is a step of `CompletionService` or a stutter, and is
proved action by action from `Coherent`. What the service needs and the server does not say of itself is
that nobody else samples when a handler begins, which follows from the mutex, and
that the context of a token is the rows of its own prompt and answer, which is
`Coherent`. A handler that decodes has fewer than `MaxTokens` tokens (`Emitting`).

`ResidentForwardProofs` proves, for every number of layers, context length,
chunk size, `-ngl`, device capacity and set of faults: `TypeOK`,
`LayersTogether`, `HollowAnnounced` (`IInv` is the inductive invariant: with
the three, what each place of a call relies on, namely a token to work on and
room for all that are left) and `DeviceMirrors`, which needs `IInv` because the rows a
pass writes must be new ones. Every action is one of four kinds of step: the
cache is reset, the mirror stays, a layer is passed, or the call ends.

`ResidentForwardProofs` also proves `AnswerRight`, which speaks only of
devices with `ReliableKV` (section 6 has what goes wrong on others; any other
call may fail at any time). `AnswerInv` is its invariant: by place it says where
the hidden state is and that it is the one of this layer (`Current`), that no row on
the host is junk and that hollow rows exist only when all layers are offloaded,
that the device has the right row for each slot (`Holding`), and when residency is
possible at all (`Resident`). It is proved relative to `IInv`.

`ArchitecturesProofs`: `AnswerRight`, `MirrorsKept`, `NoFailureUnprovoked`, for any number of
layers, any context and any set of models, of which the process has loaded one and after a
panic loads it again, provided that each of them is `Covered`. `Inv` is the invariant; its parts hold while
the call has not failed:

- `PlaceInv`: what is still to do fits the context; a layer of a chunk has at most
  `n_batch` rows, a layer of a token one;
- `RowsInv`: the rows of a layer are those of the last positions up to the one under
  way (`Done`: a layer that was passed has the rows of this pass already), or hollow ones, and there are fewer than
  positions only behind a window, and then the device is stale. What makes it delicate is that a window makes room
  *before* the new row comes (`Slack`), per layer in gemma and for all layers at once in mistral;
- `DeviceInv`: unless the flags take it back (`Counts`), every position that fits has its right row on
  the device. phi2, phi3 and deepseek do not ask for `GPUKVStale` (`Deaf`): for them
  it holds because, without lost appends, they are stale only after they have outgrown the device;
- `FlagsInv`: who may be resident, that a hollow mirror is never stale, and where `ResidDevice` cannot be set;
- `CurrentInv`: the hidden state, on the side that the place and `ResidDevice` name,
  is the one of this position after this many layers.

The first half of the module says what each shared step of `ForwardState` keeps of `Inv`; each architecture is
then a lemma (`LlamaKeeps` to `Deepseek2Keeps`) by the actions of its module, and `LoadedKeeps` says
that whatever its `Load` makes of the options satisfies `Inv`. The largest of them are
about the windows of mistral and gemma
(`MistralDrops`, `GemmaMakesRoom`: the kept rows are the window of the next query), phi3's rewriting of
the device KV (`RewrittenIs`) and the layers of deepseek2, which go on from either side. `Covered` has one hypothesis for each way in which
the code goes wrong, each of them a finding of section 6:

| hypothesis of `Covered` | without it |
|---|---|
| only gemma has windows in some layers, only mistral in all | no loader makes such a model |
| a resident model has room on the device for its context and loses neither append nor attention | hollow rows cannot be brought back when the device KV is lost |
| phi3, phi2, deepseek lose no append | they attend over the hole |
| a resident gemma2 with a softcap or a window decodes token by token and loses no upload | the host attends over hollow rows |
| gemma with a window has batches no larger than it; if it is resident, something may fail | a larger batch attends over one row too many; when the window moves over a hollow mirror the call fails without any fault |
| resident deepseek2 has a context of one token, and with experts none fails | the run deepseek2_resident; experts are added twice |

The other models, such as those of llama and mistral that are partly on the device, may fail in any way the model knows.

`RateLimiterProofs`, for any clients, any rate, any delays and logs of any
length: `WindowBound` and `SweepInvisible`. The bound on one window is not
inductive: it needs `WindowsCovered`, that what a bucket let pass since *any* moment, and what it
still holds, was in the burst or came in since, and `BucketsSolvent`, that requests which overtook
each other leave a bucket below zero by at most the time one of them waited.
`SweepInvisible` compares each answer with that of a bucket which is never swept; `Unswept` says that
such a bucket (a function over the log, `Follows`) exists, agrees with the real one
while there is one, and is full again when there is none. `LagAssumption`
(twice `MaxLag` is at most 540 s) is what makes that so: a bucket is full after 60 s and swept after
600 s, and the mutex is held for microseconds.

`HFCacheProofs`: `CachedIntact`, for a file of any size, any machine of `Machines`
and any number of faults, for a process that works alone (the property says so
itself). `Right` says by place of a run what the names lead to: a temporary file is
a prefix of the remote one with the length the process believes, a blob is whole,
a snapshot is whole unless it is being copied. Its hypothesis `CopiesNotKilled` leaves out the crash while a
snapshot is copied, which is a finding; `NamesAssumption` and `ProcsAssumption` say
that names are not inodes and processes are finitely many.

`ParallelProofs`: `CallsAreLoops`, `ErrorsAreReturned`, `ScratchIsPrivate`, for any
number of callers, workers, rows, calls and places in the channel. The heart of the
invariant is that the chunks of a call, those that wait and those at work, are apart
(`JobsApart`), that the WaitGroup counts them (`Counted`), and that each row is done,
waiting in exactly one of them, or not yet sent (`RowsDone`); from the three follows that
a call with a WaitGroup at zero has computed each row once. The proof found an
error of the model: a serial loop stops at its first bad row, and `Serial` had computed the rows behind it.

`DeviceForwardProofs`: `HeldOnDevice`, `GraphsUseLiveWeights`, `OneHidden`, for any number of
layers, devices, faults and evictions, any memory, any caps, and the four families. `CacheInv`
is inductive because it counts: what an operation holds is among the
`weightProtect - Len(todo)` most recent matrices, so each upload pushes it down by at most one
and no eviction reaches it. That is where `weightProtect >= 7` comes from (the code has 8): a call
has at most 7 matrices, which is a lemma about all calls (`StepSuits`). `HiddenInv` says which
steps a token makes in which mode (`GoodRun`), that no device but the current one is active (`ActiveHere`), and
that while nothing failed it is active wherever the model counts on it (`Counted`,
`Uploads`); each fallback is one case of `SucceededMoves` or `FailedMoves`.

The same module proves `CapsRespected` and `CacheAccounts`. `AccountsInv` says that no matrix is twice in a cache and that
what it holds fits in the memory: what `evictLocked` and `Ensure` leave is part of what there was
(`PartOf`, an injection into the old list, from which its bytes are counted). `RoomInv` is about a token
that nothing goes wrong for (`Faultless`) on a device with memory for what is protected and one matrix
more (`Roomy`): every call finds the hidden state, the attention and the snapshot that it reads
(`Fit`), an upload always finds room because what cannot be evicted is at most `weightProtect`
matrices, and the two calls that are refused all the same (the gather, and the fused attention
of a model that is not quantised) are those the model goes on after (`Refused`).

The other assumptions on constants say what numbers, sets and flags they are.

`AlgorithmsProofs`: `LayersHaveOneOwner`, for any layers, devices and weights, `PartsAgree`, for any tensor,
`BuffersHoldTheWork`, for any architecture, hyperparameters and batch, and `TopKIsTheTop`, for any logits and
any probabilities of a router. The first rests on
three facts: the sums of the weights grow (`WeightsGrow`), so that the rounded bounds do, which is why
`LayerSplitBounds` of the model may leave out the `max` with the bound before (multi.go:129); where no weight is added
the bound stays; and all the weight rounds to all the layers, so that last devices of no weight get none. A plan of growing bounds
from 0 to all layers has one owner for each (`OneOwner`). The second
(`CutsAreRight`) reduces every table of sizes to the bytes of a line and the lines of a part. The third goes in three
steps: what `ParseConfig` of an architecture accepts is a record of naturals, without experts where
the loader knows none and with a latent for deepseek2 only (`ParseIs`); what each `newScratch` asks the
arena for is at least the sum of what it takes (`LlamaIs` to `Phi2Is`; deepseek2 leaves out `qPe`, so of
its arena only the slices are proved, not that it never grows); and an arena gives slices that follow
each other, all of them of one slab if their sum was asked for (`ArenaHolds`). It assumes that a file gives its
hyperparameters as numbers that are not negative, and that no product of them overflows an `int`.
The fourth is an induction over the tokens and over the experts, by the first place where it would fail: after
each token the list has the best of those seen, in their order (`TopStep`; the inserted one goes behind the
last that is not smaller, `PlaceOf`), after each expert the kept ones are the best of those seen (`KeepStep`); sorting by
the number of those ahead leaves each in its place (`Sorted`). Its numbers are integers: NaN, and that float32
may round two different logits to the same distance from the largest, are left out.

Only model-checked: of the devices `KernelsReadTheirInputs`, which does not hold for all
configurations (`StaleVecConfigs` of `MCDeviceForward` violates it, section 6); the other pure
algorithms, most of which are folds and recursive functions over data, whose induction the
installed provers cannot instantiate (where a proof needed an induction over numbers or over a log that
grows, it was done by a least or greatest element, or by the steps of the specification);
and everything under fairness, which the prover cannot do.

## 6. Findings

With a run of their own:

- resident_stale: a prompt that outgrows the device KV leaves the device stale,
  and `forwardBatch` uploads the last hidden state and sets `ResidDevice` all
  the same (qwen3/batch.go:36). The next token skips the gather, takes the fused path over the hidden
  state of the token before it, and is answered from that.
- deepseek2_resident: `ResidDevice` survives the last layer of a token, and
  `syncHiddenFromDevice` at layer 0 of the next one overwrites the embedding with
  the final hidden state of the token before (deepseek2/model.go:328).
- stream_text: the text streamed token by token lacks the spaces that
  SentencePiece decoding of the whole answer has (conversation.go:135).

The following were met while modelling and have no run. Where a value of an MC
module shows one, it is named: put it into the cfg named with it.

Server and cache:

- A replay that fails leaves `kvConv` naming a conversation whose rows the cache
  does not hold; the next request of that session is answered from the wrong
  context (server.go:206, conversation.go:102; `LoadFaults` in server.cfg
  violates `KVCoherent`).
- A generation that fails after the history was reset rolls back to a count larger
  than the live length; the reslice brings tokens of the discarded history back
  behind the new prompt (conversation.go:94).
- Burst and refill add up to nearly twice the documented requests in one minute (ratelimit.go).
- `sessions` never shrinks (server.go:200). A chat answer is committed
  before it is checked to be JSON (chat_completions.go:346).
- A crash while copying leaves a partial snapshot that is returned ever after
  (hf/download.go:206; `CrashWhileCopying` in hf_resume.cfg violates `CachedIntact`).
  Two processes can empty each other's blob: os.Create follows the symbolic link
  (download.go:175), and the fallback for Windows removes the target whatever
  the rename failed of (atomic.go:13).
- `docs/api.md:80` says that temperature 0 is greedy. With a `top_p` below 1 it is
  not: the chain skips the temperature at 0 and draws from the logits as
  they are (sampler/chain.go:20, server/sampling.go:22). `SamplingIsExact` exempts the case:
  at 0 with a cut it claims only that the greedy choice can be drawn.
- A stop text is streamed before it is noticed, a stop of white space is ignored, one
  that ends inside a token is missed (session.go:223).

Layers, host and device:

- When a batch attention fails on the device, or a chunk outgrows it,
  after tokens were decoded there, `forwardBlockBatch` attends over the host
  mirror without asking `CPUKVHollow` (qwen3/batch.go:205). `AnswerRight` of
  ResidentForward therefore assumes `ReliableKV`: a device KV that has room for
  the context and loses neither an append nor an attention.
- gemma with a window and `n_batch` > 1 attends behind its rows and panics
  (gemma/batch.go:172; `WindowedBatches` in architectures.cfg violates `NoPanic`).
  A first batch larger than the window `w` does not, and attends over `w + 1` rows (`skip` is `n - 1 - w`).
  Its hollow mirror is attended over after a device failure (batch.go:99), and a
  window that overflows the device drops context (residency.go:92).
- gemma2 with all layers on the device, met while proving `AnswersAreRight`: tokens decoded over `d_resid` leave hollow rows
  (residency.go:112), and the batch prefill of the next turn attends on the host
  over every layer with a softcap or a window (batch.go:151) without asking
  `CPUKVHollow`. Nothing has to fail for it: the second prompt of a conversation is answered from zeros
  (`HollowBatches` in architectures.cfg violates `AnswerRight`).
- phi2, deepseek, and phi3 in a batch ignore a failed append and attend over the hole
  (phi2/model.go:323). A resident model that outgrows the device KV does what
  resident_stale shows in the other loaders too.
- An expert that fails on the device leaves the sum of those before it; resident
  deepseek2 downloads that sum and adds all of them again (deepseek2/residency.go:114).
- A failing product leaves its vector's name in `lastVec`, and the next product
  with the same buffer skips its upload (cuda/backend.go:1907;
  `StaleVecConfigs` in devices.cfg violates `KernelsReadTheirInputs` without any failure).
  The flag of the attention left in that vector stays set after two failures in a row
  (backend.go:1602).
- `ResidDevice` stays set after a resident token, so that a failed `HiddenUpload`
  of the next one is an error (qwen3/model.go:277).
- Nine matrices that do not fit make an upload fail although older ones could go
  (weightProtect, weight_cache.go:271); the byte cap counts host bytes; the gather
  of an embedding expects 36 bytes per Q8_0 block where the file has 34, and is always refused.
- The fused operations upload all matrices of a layer with the type of the first
  (gpuresid.go:78, :187): a file of mixed types is read wrongly when not resident.

Pure parts:

- deepseek2's scratch size leaves out the rotary width, so that its arena doubles
  once, and it accepts more used experts than there are. `head_count` 0 in
  llama, mistral and qwen3 is a division by zero at load, `head_count_kv` 0 one
  in attention, and `general.alignment` 0 one in reader.go:314.
- Q4_0 and Q4_1 interleave their nibbles where the halves of Q5_0 and Q5_1 are
  one behind the other; ggml has the latter order for all four.
- spm.go prefers a token without its space marker if it exists, and so loses the space
  that spm.go:5 promises. Any token that starts with "<" is a special token.
- Strings are trimmed (reader.go:48), keys, values and names; docs/GGUF-FORMAT.md:306 returns them whole.
  `FilesAreRead` exempts entries with such strings.
- A tensor behind the end of a truncated mapped file is nil without an error (tensor.go:25, raw.go:12),
  where a copied one is an error. `FilesAreRead` states both, and that the error comes with the
  first use: no floats are made of nothing (quant/dequant.go:49) and no product either (ops.go:93).
- docs/GGUF-FORMAT.md:613 gives a block of Q5_1 26 bytes; code and model have 24, which is what its
  parts add up to. docs/GGUF-FORMAT.md:622 and :630 number `IQ2_XXS` 16 and `I8` 24; dtype.go:23 has
  `Int8` at 16 (and `Int16`, `Int32` at 17, 18), so that it takes a tensor of the one for the other.
- K-quant and batch products drop an error of a row's dot product
  (matmul/q2_q3_q8_k.go:34, matmul_batch.go:63). The guard against nested loops
  (parallel_depth.go:16) identifies a goroutine by the address of a local, and so
  never recognises one.
- Chat: a JSON answer with a key "name" is returned as a tool call although no
  tools were offered; text behind a loose JSON call is dropped; a block that does
  not parse vanishes; thoughts are stripped only when there are calls;
  `FormatUser` says the system text twice for mistral, `Options.System` with a
  dialog is dropped (ChatML) or doubled (Llama 2, mistral with tools); `FormatMessages` does not look at
  mistral's format as `FormatUser` does; the user fallback drops tools; unknown roles ("developer") are dropped;
  a `tool_use` template is ignored without a default one.

## 7. Not modelled

- What a Forward computes: rows and contents stand for it. Numbers and kernels
  have no states to explore and are left to the repository's tests. `ptx.go` and
  `driver.c` appear as the outcomes of the operations that launch them.
- Parsing of requests, JSON and SSE encoding: a request is the prompt it yields.
- The template interpreter (`pkg/chat/jinja`): a pure function on texts; `Chat`
  takes "rendered", "empty" or an error from it.
- Shutdown and life cycle: one select over the standard library. Requests run to their end in
  `InferenceServer`; the race between a shutdown and a generation is a hazard without a property.
- The guard against nested parallel loops: no caller has one.
- What is loaded once: tensor names, opening of devices, choice of kernels, debug hooks.
- The offline listing of the Hub cache, the choice of the file, the small files
  without a hash.
- The web client, the command-line tools, the debug dumps: not part of what the
  library promises.
