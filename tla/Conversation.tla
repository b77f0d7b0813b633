--------------------------- MODULE Conversation ---------------------------
(***************************************************************************)
(* The data of runtime.Conversation (pkg/runtime/conversation.go): a Go    *)
(* slice of token ids and the attention cache rows a Forward writes for    *)
(* them.                                                                   *)
(*                                                                         *)
(* A slice is a backing array `mem` and a live length `len`.  Reslicing to *)
(* zero keeps the array, append overwrites it in place, and reslicing      *)
(* upwards (tokens[:n] with n > len) makes old elements live again, so the *)
(* elements above the live length are kept here and not forgotten.         *)
(* Elements above the longest length ever live are not represented: a      *)
(* reallocating append leaves none, and no reslice in the code reaches     *)
(* them (InferenceServer!RollbackInBounds).                                *)
(***************************************************************************)
EXTENDS Integers, Sequences

\* The rows Forward(ts, start) appends to the KV cache: the token and the
\* rotary position it is given, which is start, start + 1, ...
Entries(ts, start) ==
  [i \in 1..Len(ts) |-> [tok |-> ts[i], pos |-> start + i - 1]]

\* The live part of a slice.
Live(mem, len) == SubSeq(mem, 1, len)

\* Mutants of Extend: the result of append is dropped; a reset that allocates a
\* new array instead of reslicing.
ExtendDropped(mem, len, ts) == Live(mem, len)
ExtendReallocated(mem, len, ts) == Live(mem, len) \o ts

\* append(tokens[:len], ts...): what was stored above the new length stays.
Extend(mem, len, ts) ==
  Live(mem, len) \o ts \o SubSeq(mem, len + Len(ts) + 1, Len(mem))

TokensPrefixEqual(a, b, n) ==
  /\ n <= Len(a)
  /\ n <= Len(b)
  /\ \A i \in 1..n : a[i] = b[i]

\* Mutant: the history is kept whenever the prompt is at least as long.
ResetOnlyWhenLonger(cached, convTokens, promptTokens) ==
  cached > Len(promptTokens)

\* shouldResetConversation: the prompt does not extend the cached history.
ShouldResetConversation(cached, convTokens, promptTokens) ==
  \/ cached > Len(promptTokens)
  \/ ~ TokensPrefixEqual(convTokens, promptTokens, cached)

=============================================================================
