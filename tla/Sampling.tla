------------------------------ MODULE Sampling ------------------------------
(***************************************************************************)
(* pkg/runtime/sampler, with prepareLogits of pkg/runtime/session.go and    *)
(* pkg/server/sampling.go: from the logits of a model to a token.           *)
(*                                                                         *)
(* Logits are integers, a function from token ids 0..n-1.  The probability  *)
(* of a logit is a power of it (2 to the logit, 4 when the temperature is a *)
(* half): the sampler only compares probabilities with fractions of their   *)
(* sum and of their maximum, and TopP and MinP are counted in quarters.     *)
(***************************************************************************)
EXTENDS Integers, Sequences, SequencesExt

Quarters == 4          \* a TopP or MinP of 1

Vocabulary(logits) == DOMAIN logits

\* Greedy: the first of the largest.
Greedy(logits) ==
  CHOOSE t \in Vocabulary(logits) :
    \A u \in Vocabulary(logits) : logits[u] < logits[t] \/ (logits[u] = logits[t] /\ t <= u)

(***************************************************************************)
(* Penalties (penalties.go, session.go)                                     *)
(***************************************************************************)
Known(logits, history) == SelectSeq(history, LAMBDA t : t \in Vocabulary(logits))

\* A seen token is skipped.
EachOnce(history) ==
  FoldLeft(LAMBDA seen, t : IF Contains(seen, t) THEN seen ELSE Append(seen, t), <<>>, history)

ApplyPresencePenalty(logits, history, penalty) ==
  FoldLeft(LAMBDA l, t : [l EXCEPT ![t] = @ - penalty], logits, EachOnce(Known(logits, history)))

LastOf(history, n) == IF n > 0 /\ Len(history) > n THEN SubSeq(history, Len(history) - n + 1, Len(history))
                      ELSE history

ApplyRepeatPenalty(logits, history, penalty, lastN) ==
  FoldLeft(LAMBDA l, t : [l EXCEPT ![t] = IF @ > 0 THEN @ \div penalty ELSE @ * penalty],
           logits, EachOnce(Known(logits, LastOf(history, lastN))))

ApplyLogitBias(logits, bias) ==
  [t \in Vocabulary(logits) |-> IF t \in DOMAIN bias THEN logits[t] + bias[t] ELSE logits[t]]

\* prepareLogits: works on a copy; presence, then repetition, then the bias of the caller.
PrepareLogits(logits, history, p) ==
  LET present  == IF p.presence # 0 THEN ApplyPresencePenalty(logits, history, p.presence) ELSE logits
      repeated == IF p.repeat > 0 /\ p.repeat # 1 THEN ApplyRepeatPenalty(present, history, p.repeat, p.lastN) ELSE present
  IN  ApplyLogitBias(repeated, p.bias)

(***************************************************************************)
(* The cuts (chain.go)                                                      *)
(***************************************************************************)
\* The orders a descending sort may leave tokens in: it is not stable.
Descending(value, kept) ==
  {s \in SetToSeqs(kept) : \A i \in 1..(Len(s) - 1) : value[s[i]] >= value[s[i + 1]]}

\* applyTemperature leaves the logits alone at 0 and at 1; temp counts halves.
ApplyTemperature(temp) == IF temp = 1 THEN 4 ELSE 2
Probabilities(logits, base) ==
  LET low == Min({logits[t] : t \in Vocabulary(logits)}) IN [t \in Vocabulary(logits) |-> base ^ (logits[t] - low)]
SumOver(weight, kept) == MapThenSumSet(LAMBDA t : weight[t], kept)

TopKCut(logits, kept, k) ==
  IF k > 0 /\ k < Cardinality(Vocabulary(logits))
  THEN {ToSet(SubSeq(s, 1, Min({k, Len(s)}))) : s \in Descending(logits, kept)}
  ELSE {kept}

\* The threshold is taken from the tokens of the whole vocabulary.
MinPCut(weight, kept, minP) ==
  IF minP > 0 THEN {t \in kept : Quarters * weight[t] >= minP * Max({weight[u] : u \in DOMAIN weight})}
  ELSE kept

\* Mutant: a sum that is the bound exactly does not end the walk.
ReachedLate(sum, total, topP) == Quarters * sum > topP * total

\* The walk ends with the token that reaches the bound.
Reached(sum, total, topP) == Quarters * sum >= topP * total

TopPCut(weight, kept, topP) ==
  IF topP > 0 /\ topP < Quarters
  THEN LET total == SumOver(weight, kept)
           Ends(s) == CHOOSE n \in 1..Len(s) :
                        /\ Reached(SumOver(weight, ToSet(SubSeq(s, 1, n))), total, topP) \/ n = Len(s)
                        /\ \A m \in 1..(n - 1) : ~Reached(SumOver(weight, ToSet(SubSeq(s, 1, m))), total, topP)
       IN  {ToSet(SubSeq(s, 1, Ends(s))) : s \in Descending(weight, kept)}
  ELSE {kept}

\* sampleMasked: the first kept token at which the running sum reaches r, a number from
\* 0 up to the sum, itself excluded; it is counted in halves.
SampleMasked(weight, kept, r) ==
  LET upTo(t) == SumOver(weight, {u \in kept : u <= t})
  IN  CHOOSE t \in kept : 2 * upTo(t) >= r /\ \A u \in kept : u < t => 2 * upTo(u) < r

Cold(cfg) == cfg.temp <= 0 /\ cfg.topK <= 0 /\ (cfg.topP <= 0 \/ cfg.topP >= Quarters)

\* The tokens New's sampler may return.
Draws(logits, cfg) ==
  IF Cold(cfg) THEN {Greedy(logits)}
  ELSE LET weight == Probabilities(logits, ApplyTemperature(cfg.temp))
       IN  UNION {UNION {{SampleMasked(weight, kept, r) : r \in 0..(2 * SumOver(weight, kept) - 1)}
                         : kept \in TopPCut(weight, MinPCut(weight, few, cfg.minP), cfg.topP)}
                  : few \in TopKCut(logits, Vocabulary(logits), cfg.topK)}

(***************************************************************************)
(* Log-probabilities (logprobs.go): their order is the order of the logits, *)
(* the rounding of differences aside.                                       *)
(***************************************************************************)
\* insertSortDesc: the last entry moves up to behind the first that is not smaller.
InsertSortDesc(logits, top) ==
  LET t == Last(top)
      i == CHOOSE i \in 1..Len(top) :
             /\ i = 1 \/ logits[top[i - 1]] >= logits[t]
             /\ \A j \in i..(Len(top) - 1) : logits[top[j]] < logits[t]
  IN  InsertAt(Front(top), i, t)

\* The next token is appended while there is room; after that it replaces the last if it is larger.
TakeIn(logits, top, t, room) ==
  IF Len(top) < room THEN InsertSortDesc(logits, Append(top, t))
  ELSE IF logits[t] <= logits[Last(top)] THEN top
  ELSE InsertSortDesc(logits, Append(Front(top), t))

TopLogprobs(logits, k) ==
  LET n == Cardinality(Vocabulary(logits))
      top[i \in 0..n] == IF i = 0 THEN <<>> ELSE TakeIn(logits, top[i - 1], i - 1, Min({k, n}))
  IN  IF k < 1 THEN <<>> ELSE top[n]
=============================================================================
