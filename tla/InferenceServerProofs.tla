----------------------- MODULE InferenceServerProofs -----------------------
(***************************************************************************)
(* Proofs about InferenceServer, for every number of handlers, sessions,   *)
(* conversations, tokens and prompts.  The first part holds whatever fails;*)
(* the second, that the cache is coherent and invisible, needs that only a *)
(* prefill or a decode fails and never the replay of an accepted history.  *)
(* The third is the refinement: whatever sessions, cache, resets and     *)
(* embeddings do, every step of the server is a step of CompletionService,*)
(* a service without memory, or none.                                    *)
(***************************************************************************)
EXTENDS InferenceServer, SequenceTheorems, TLAPS

-----------------------------------------------------------------------------
(* The slices and rows of Conversation, for any element set.                 *)

\* Entries makes one row per token.
LEMMA EntriesType ==
  ASSUME NEW S, NEW ts \in Seq(S), NEW start \in Nat
  PROVE  /\ Entries(ts, start) \in Seq([tok : S, pos : Nat])
         /\ Len(Entries(ts, start)) = Len(ts)
         /\ \A i \in 1..Len(ts) :
              Entries(ts, start)[i] = [tok |-> ts[i], pos |-> start + i - 1]
<1>1. \A i \in 1..Len(ts) :
        [tok |-> ts[i], pos |-> start + i - 1] \in [tok : S, pos : Nat]
  OBVIOUS
<1> QED BY <1>1 DEF Entries

\* Prefilling in two parts writes the rows of the whole.
LEMMA EntriesConcat ==
  ASSUME NEW S, NEW s \in Seq(S), NEW t \in Seq(S)
  PROVE  Entries(s \o t, 0) = Entries(s, 0) \o Entries(t, Len(s))
<1> DEFINE R == [tok : S, pos : Nat]
           st == s \o t
           lhs == Entries(st, 0)
           es == Entries(s, 0)
           et == Entries(t, Len(s))
<1>0. Len(s) \in Nat /\ Len(t) \in Nat
  BY LenProperties
<1>1. /\ st \in Seq(S)
      /\ Len(st) = Len(s) + Len(t)
      /\ \A i \in 1..(Len(s) + Len(t)) :
           st[i] = IF i <= Len(s) THEN s[i] ELSE t[i - Len(s)]
  BY ConcatProperties
<1> HIDE DEF st
<1>2. /\ lhs \in Seq(R)
      /\ Len(lhs) = Len(st)
      /\ \A i \in 1..Len(st) : lhs[i] = [tok |-> st[i], pos |-> 0 + i - 1]
  BY <1>1, EntriesType
<1>3. /\ es \in Seq(R)
      /\ Len(es) = Len(s)
      /\ \A i \in 1..Len(s) : es[i] = [tok |-> s[i], pos |-> 0 + i - 1]
  BY EntriesType
<1>4. /\ et \in Seq(R)
      /\ Len(et) = Len(t)
      /\ \A i \in 1..Len(t) : et[i] = [tok |-> t[i], pos |-> Len(s) + i - 1]
  BY <1>0, EntriesType
<1> HIDE DEF lhs, es, et, R
<1>5. /\ es \o et \in Seq(R)
      /\ Len(es \o et) = Len(s) + Len(t)
      /\ \A i \in 1..(Len(s) + Len(t)) :
           (es \o et)[i] = IF i <= Len(s) THEN es[i] ELSE et[i - Len(s)]
  <2>1. es \in Seq(R) /\ et \in Seq(R) /\ Len(es) = Len(s) /\ Len(et) = Len(t)
    BY <1>3, <1>4
  <2>2. /\ es \o et \in Seq(R)
        /\ Len(es \o et) = Len(es) + Len(et)
        /\ \A i \in 1..(Len(es) + Len(et)) :
             (es \o et)[i] = IF i <= Len(es) THEN es[i] ELSE et[i - Len(es)]
    BY <2>1, ConcatProperties
  <2> QED BY <2>1, <2>2, Zenon
<1>6. ASSUME NEW i \in 1..(Len(s) + Len(t)) PROVE lhs[i] = (es \o et)[i]
  <2>1. CASE i <= Len(s)
    <3>1. i \in 1..Len(s)
      BY <1>0, <2>1
    <3>2. lhs[i] = [tok |-> s[i], pos |-> 0 + i - 1]
      BY <1>1, <1>2, <2>1
    <3> QED BY <1>3, <1>5, <2>1, <3>1, <3>2
  <2>2. CASE ~ (i <= Len(s))
    <3>1. i - Len(s) \in 1..Len(t) /\ Len(s) + (i - Len(s)) - 1 = 0 + i - 1
      BY <1>0, <2>2
    <3>2. lhs[i] = [tok |-> t[i - Len(s)], pos |-> 0 + i - 1]
      BY <1>1, <1>2, <2>2
    <3>3. et[i - Len(s)] = [tok |-> t[i - Len(s)], pos |-> Len(s) + (i - Len(s)) - 1]
      BY <1>4, <3>1
    <3> QED BY <1>5, <2>2, <3>1, <3>2, <3>3
  <2> QED BY <2>1, <2>2
<1>7. lhs = es \o et
  BY <1>1, <1>2, <1>5, <1>6, SeqEqual
<1> QED BY <1>7 DEF lhs, es, et, st

\* The live part of a slice is as long as the slice.
LEMMA LiveType ==
  ASSUME NEW S, NEW m \in Seq(S), NEW l \in Nat, l <= Len(m)
  PROVE  Live(m, l) \in Seq(S) /\ Len(Live(m, l)) = l
BY DEF Live

\* append: the appended tokens follow the live ones, whatever was stored above.
LEMMA ExtendLive ==
  ASSUME NEW S, NEW m \in Seq(S), NEW l \in Nat, l <= Len(m), NEW ts \in Seq(S)
  PROVE  /\ Extend(m, l, ts) \in Seq(S)
         /\ l + Len(ts) <= Len(Extend(m, l, ts))
         /\ Len(m) <= Len(Extend(m, l, ts))
         /\ Live(Extend(m, l, ts), l + Len(ts)) = Live(m, l) \o ts
<1> DEFINE tail == SubSeq(m, l + Len(ts) + 1, Len(m))
           live == Live(m, l)
           front == live \o ts
<1>0. Len(m) \in Nat /\ Len(ts) \in Nat
  BY LenProperties
<1>1. /\ tail \in Seq(S)
      /\ Len(tail) = IF l + Len(ts) + 1 <= Len(m) THEN Len(m) - (l + Len(ts) + 1) + 1 ELSE 0
  <2>1. \A i \in (l + Len(ts) + 1)..Len(m) : m[i] \in S
    BY <1>0, ElementOfSeq
  <2> QED BY <1>0, <2>1, SubSeqProperties
<1>2. live \in Seq(S) /\ Len(live) = l
  BY LiveType
<1>3. Extend(m, l, ts) = front \o tail
  BY DEF Extend
<1> HIDE DEF tail, live
<1>4. front \in Seq(S) /\ Len(front) = l + Len(ts)
  BY <1>2, ConcatProperties
<1>5. front \o tail \in Seq(S) /\ Len(front \o tail) = Len(front) + Len(tail)
  BY <1>1, <1>4, ConcatProperties
<1>6. SubSeq(front \o tail, 1, Len(front)) = front
  <2>1. CASE Len(front) = 0
    <3>1. front = <<>>
      BY <1>4, <2>1, EmptySeq
    <3>2. SubSeq(front \o tail, 1, 0) = <<>>
      BY SubSeqEmpty
    <3> QED BY <2>1, <3>1, <3>2
  <2>2. CASE Len(front) # 0
    <3>1. 1 \in 1..Len(front) /\ Len(front) \in 1..Len(front)
      BY <1>0, <1>4, <2>2
    <3>2. SubSeq(front \o tail, 1, Len(front)) = SubSeq(front, 1, Len(front))
      BY <1>1, <1>4, <3>1, SubSeqOfConcat1
    <3> QED BY <1>4, <3>2, SubSeqFull
  <2> QED BY <2>1, <2>2
<1>7. Live(front \o tail, l + Len(ts)) = front
  BY <1>4, <1>6 DEF Live
<1> HIDE DEF front
<1>8. l + Len(ts) <= Len(front \o tail) /\ Len(m) <= Len(front \o tail)
  <2>1. CASE l + Len(ts) + 1 <= Len(m)
    <3>1. Len(tail) = Len(m) - (l + Len(ts) + 1) + 1
      BY <1>1, <2>1
    <3> QED BY <1>0, <1>4, <1>5, <2>1, <3>1
  <2>2. CASE ~ (l + Len(ts) + 1 <= Len(m))
    <3>1. Len(tail) = 0
      BY <1>1, <2>2
    <3> QED BY <1>0, <1>4, <1>5, <2>2, <3>1
  <2> QED BY <2>1, <2>2
<1> QED BY <1>3, <1>5, <1>7, <1>8 DEF front, live

\* A prompt that extends the history is the history and the rest.
LEMMA PrefixRest ==
  ASSUME NEW S, NEW hist \in Seq(S), NEW p \in Seq(S),
         ~ ShouldResetConversation(Len(hist), hist, p)
  PROVE  /\ Len(hist) <= Len(p)
         /\ SubSeq(p, Len(hist) + 1, Len(p)) \in Seq(S)
         /\ Len(SubSeq(p, Len(hist) + 1, Len(p))) = Len(p) - Len(hist)
         /\ hist \o SubSeq(p, Len(hist) + 1, Len(p)) = p
<1> DEFINE n == Len(hist)
           rest == SubSeq(p, n + 1, Len(p))
<1>0. n \in Nat /\ Len(p) \in Nat
  BY LenProperties
<1>1. n <= Len(p) /\ \A i \in 1..n : hist[i] = p[i]
  BY <1>0 DEF ShouldResetConversation, TokensPrefixEqual
<1>2. \A i \in (n + 1)..Len(p) : p[i] \in S
  BY <1>0, ElementOfSeq
<1>3. /\ rest \in Seq(S)
      /\ Len(rest) = IF n + 1 <= Len(p) THEN Len(p) - (n + 1) + 1 ELSE 0
      /\ \A i \in 1..(Len(p) - (n + 1) + 1) : rest[i] = p[(n + 1) + i - 1]
  BY <1>0, <1>2, SubSeqProperties
<1> HIDE DEF rest
<1>4. Len(rest) = Len(p) - n
  BY <1>0, <1>1, <1>3
<1>5. /\ hist \o rest \in Seq(S)
      /\ Len(hist \o rest) = n + Len(rest)
      /\ \A i \in 1..(n + Len(rest)) :
           (hist \o rest)[i] = IF i <= n THEN hist[i] ELSE rest[i - n]
  BY <1>3, ConcatProperties
<1> HIDE DEF n
<1>6. ASSUME NEW i \in 1..Len(p) PROVE (hist \o rest)[i] = p[i]
  <2>0. i \in 1..(n + Len(rest))
    BY <1>0, <1>4
  <2>1. CASE i <= n
    <3>1. i \in 1..n
      BY <1>0, <2>1
    <3> QED BY <1>1, <1>5, <2>0, <2>1, <3>1
  <2>2. CASE ~ (i <= n)
    <3>1. i - n \in 1..(Len(p) - (n + 1) + 1) /\ (n + 1) + (i - n) - 1 = i
      BY <1>0, <2>2
    <3> QED BY <1>3, <1>5, <2>0, <2>2, <3>1
  <2> QED BY <2>1, <2>2
<1>7. hist \o rest = p
  <2>1. Len(hist \o rest) = Len(p)
    BY <1>0, <1>4, <1>5
  <2>2. \A i \in 1..Len(hist \o rest) : (hist \o rest)[i] = p[i]
    BY <1>6, <2>1
  <2>3. hist \o rest \in Seq(S)
    BY <1>5
  <2> QED BY <2>1, <2>2, <2>3, SeqEqual
<1> QED BY <1>1, <1>3, <1>4, <1>7 DEF rest, n

-----------------------------------------------------------------------------
(* What a handler at each place may rely on.                                  *)

Holding == {"waiting", "ensure", "start", "decode", "commit", "rollback"}

\* What a handler at each place may rely on, whatever fails.
HandlerBounds(h) ==
  /\ pc[h] \in Holding => conv[h] # NoConv
  /\ pc[h] \in {"idle", "waitingEmbed", "embed", "embedding"} => conv[h] = NoConv
  /\ pc[h] \in {"decode", "rollback"} => snap[h] <= Len(mem[conv[h]])
  /\ pc[h] \in {"decode", "commit"} => History(conv[h]) = prompt[h]
  /\ (pc[h] = "reply" /\ status[h] = "ok" /\ conv[h] # NoConv) =>
       History(conv[h]) = prompt[h] \o gen[h]

Bounds ==
  /\ TypeOK
  /\ OneForwardInFlight
  /\ \A h \in Handlers : HandlerBounds(h)

-----------------------------------------------------------------------------
(* Slices and rows of typed states. *)

\* A typed conversation is a slice whose live part has the live length.
LEMMA SeqTokens ==
  ASSUME TypeOK, NEW c \in Convs
  PROVE  /\ mem[c] \in Seq(Tokens) /\ len[c] \in Nat /\ len[c] <= Len(mem[c])
         /\ Len(mem[c]) \in Nat
         /\ History(c) \in Seq(Tokens) /\ Len(History(c)) = len[c]
<1>1. mem[c] \in Seq(Tokens) /\ len[c] \in Nat /\ len[c] <= Len(mem[c])
  BY DEF TypeOK
<1>2. Len(mem[c]) \in Nat
  BY <1>1, LenProperties
<1> QED BY <1>1, <1>2, LiveType DEF History

\* A prefix of a slice, and its rows.
LEMMA PrefixRows ==
  ASSUME NEW m \in Seq(Tokens), NEW n \in Nat, n <= Len(m), NEW start \in Nat
  PROVE  /\ SubSeq(m, 1, n) \in Seq(Tokens)
         /\ Len(SubSeq(m, 1, n)) = n
         /\ Entries(SubSeq(m, 1, n), start) \in Seq(Rows)
<1>1. SubSeq(m, 1, n) \in Seq(Tokens) /\ Len(SubSeq(m, 1, n)) = n
  BY LiveType DEF Live
<1> QED BY <1>1, EntriesType DEF Rows

\* Where startGeneration starts from and what it prefills.
LEMMA StartFacts ==
  ASSUME TypeOK, NEW h \in Handlers, conv[h] \in Convs
  PROVE  /\ Cached(h) \in Nat
         /\ Cached(h) <= len[conv[h]]
         /\ NewTokens(h) \in Seq(Tokens)
         /\ Len(NewTokens(h)) \in Nat
         /\ Cached(h) + Len(NewTokens(h)) = Len(prompt[h])
         /\ Live(mem[conv[h]], Cached(h)) \o NewTokens(h) = prompt[h]
         /\ BaseKV(h) \in Seq(Rows)
         /\ BaseLogits(h) \in Seq(Rows) \cup {NoLogits}
<1>0. /\ prompt[h] \in Seq(Tokens) /\ Len(prompt[h]) \in Nat
      /\ kv \in Seq(Rows)
      /\ lastLogits[conv[h]] \in Seq(Rows) \cup {NoLogits}
  BY LenProperties DEF TypeOK
<1>1. BaseKV(h) \in Seq(Rows) /\ BaseLogits(h) \in Seq(Rows) \cup {NoLogits}
  BY <1>0, EmptySeq DEF BaseKV, BaseLogits
<1>2. /\ mem[conv[h]] \in Seq(Tokens) /\ len[conv[h]] \in Nat
      /\ History(conv[h]) \in Seq(Tokens)
      /\ Len(History(conv[h])) = len[conv[h]]
  BY SeqTokens
<1> DEFINE Goal ==
             /\ Cached(h) \in Nat
             /\ Cached(h) <= len[conv[h]]
             /\ NewTokens(h) \in Seq(Tokens)
             /\ Len(NewTokens(h)) \in Nat
             /\ Cached(h) + Len(NewTokens(h)) = Len(prompt[h])
             /\ Live(mem[conv[h]], Cached(h)) \o NewTokens(h) = prompt[h]
<1>3. ASSUME Cached(h) = 0 PROVE Goal
  <2>1. NewTokens(h) = prompt[h]
    BY <1>0, <1>3, SubSeqFull DEF NewTokens
  <2>2. Live(mem[conv[h]], Cached(h)) = <<>>
    BY <1>3, SubSeqEmpty DEF Live
  <2>3. <<>> \o prompt[h] = prompt[h]
    BY <1>0, ConcatEmptySeq
  <2>4. Live(mem[conv[h]], Cached(h)) \o NewTokens(h) = prompt[h]
    BY <2>1, <2>2, <2>3, Zenon
  <2>5. /\ NewTokens(h) \in Seq(Tokens)
        /\ Len(NewTokens(h)) \in Nat
        /\ Len(NewTokens(h)) = Len(prompt[h])
    BY <1>0, <2>1
  <2> QED BY <1>2, <1>3, <2>4, <2>5
<1>4. ASSUME ~ Resets(h), len[conv[h]] # 0 PROVE Goal
  <2>1. Cached(h) = len[conv[h]] /\ len[conv[h]] > 0
    BY <1>2, <1>4 DEF Cached
  <2>2. ~ ShouldResetConversation(Len(History(conv[h])), History(conv[h]), prompt[h])
    BY <1>2, <1>4, <2>1 DEF Resets
  <2>3. /\ NewTokens(h) \in Seq(Tokens)
        /\ Len(NewTokens(h)) = Len(prompt[h]) - len[conv[h]]
        /\ History(conv[h]) \o NewTokens(h) = prompt[h]
        /\ len[conv[h]] <= Len(prompt[h])
    <3> DEFINE H == History(conv[h])
               P == prompt[h]
    <3>1. H \in Seq(Tokens) /\ P \in Seq(Tokens) /\ Len(H) = len[conv[h]]
      BY <1>0, <1>2
    <3>2. ~ ShouldResetConversation(Len(H), H, P)
      BY <2>2
    <3>3. NewTokens(h) = SubSeq(P, Len(H) + 1, Len(P))
      BY <2>1, <3>1 DEF NewTokens
    <3> HIDE DEF H, P
    <3>4. /\ Len(H) <= Len(P)
          /\ SubSeq(P, Len(H) + 1, Len(P)) \in Seq(Tokens)
          /\ Len(SubSeq(P, Len(H) + 1, Len(P))) = Len(P) - Len(H)
          /\ H \o SubSeq(P, Len(H) + 1, Len(P)) = P
      BY <3>1, <3>2, PrefixRest
    <3> QED BY <3>1, <3>3, <3>4 DEF H, P
  <2>4. Live(mem[conv[h]], Cached(h)) \o NewTokens(h) = prompt[h]
    BY <2>1, <2>3 DEF History
  <2>5. Len(NewTokens(h)) \in Nat /\ Cached(h) + Len(NewTokens(h)) = Len(prompt[h])
    BY <1>0, <1>2, <2>1, <2>3
  <2> QED BY <1>2, <2>1, <2>3, <2>4, <2>5
<1>5. Cached(h) = 0 \/ (~ Resets(h) /\ len[conv[h]] # 0)
  BY <1>2 DEF Cached
<1> QED BY <1>1, <1>3, <1>4, <1>5

-----------------------------------------------------------------------------
(* Bounds is inductive. *)

\* The server starts inside the invariant.
LEMMA InitBounds == Init => Bounds
<1> SUFFICES ASSUME Init PROVE Bounds
  OBVIOUS
<1>1. <<>> \in Seq(Tokens) /\ <<>> \in Seq(Rows) /\ Len(<<>>) = 0
  BY EmptySeq
<1>2. TypeOK
  BY <1>1 DEF Init, TypeOK, PCs
<1>3. OneForwardInFlight
  BY DistinctAssumption DEF Init, OneForwardInFlight, Critical
<1>4. \A h \in Handlers : HandlerBounds(h)
  BY DEF Init, HandlerBounds, Holding
<1> QED BY <1>2, <1>3, <1>4 DEF Bounds

\* While one handler works under the lock, what the others rely on is theirs:
\* none of them is inside.
LEMMA OthersUndisturbed ==
  ASSUME Bounds, NEW h \in Handlers, pc[h] \in Critical,
         \A g \in Handlers \ {h} : pc'[g] = pc[g] /\ conv'[g] = conv[g]
  PROVE  \A g \in Handlers \ {h} : pc[g] \notin Critical /\ HandlerBounds(g)'
<1> SUFFICES ASSUME NEW g \in Handlers \ {h}
             PROVE  pc[g] \notin Critical /\ HandlerBounds(g)'
  OBVIOUS
<1>1. inferMu = h /\ pc[g] \notin Critical
  BY DEF Bounds, OneForwardInFlight
<1>2. pc'[g] = pc[g] /\ conv'[g] = conv[g] /\ HandlerBounds(g)
  BY DEF Bounds
<1>3. HandlerBounds(g)'
  BY <1>1, <1>2 DEF HandlerBounds, Holding, Critical
<1> QED BY <1>1, <1>3

\* A step under the lock that keeps it keeps the lock discipline.
LEMMA KeepsLock ==
  ASSUME Bounds, NEW h \in Handlers, pc[h] \in Critical, pc'[h] \in Critical,
         inferMu' = inferMu,
         \A g \in Handlers \ {h} : pc'[g] = pc[g]
  PROVE  OneForwardInFlight'
BY DEF Bounds, OneForwardInFlight

\* The handler that works has a conversation, unless it serves embeddings.
LEMMA Mine ==
  ASSUME Bounds, NEW h \in Handlers, pc[h] \in Holding
  PROVE  /\ conv[h] \in Convs
         /\ mem[conv[h]] \in Seq(Tokens) /\ len[conv[h]] \in Nat
         /\ len[conv[h]] <= Len(mem[conv[h]]) /\ Len(mem[conv[h]]) \in Nat
         /\ History(conv[h]) \in Seq(Tokens)
         /\ Len(History(conv[h])) = len[conv[h]]
<1>1. TypeOK /\ conv[h] \in Convs
  BY DEF Bounds, TypeOK, HandlerBounds
<1> QED BY <1>1, SeqTokens

\* Steps that change none of the slices.
LEMMA EnsureKVBounds ==
  ASSUME Bounds, NEW h \in Handlers, EnsureKV(h)
  PROVE  Bounds'
<1>1. /\ pc[h] = "ensure" /\ pc[h] \in Critical /\ pc[h] \in Holding
      /\ pc' = [pc EXCEPT ![h] = "start"] \/ pc' = [pc EXCEPT ![h] = "reply"]
      /\ UNCHANGED <<mem, len, sessions, inferMu, conv, prompt, gen, logits, snap>>
      /\ (pc' = [pc EXCEPT ![h] = "start"] /\ status' = status)
           \/ status' = [status EXCEPT ![h] = "error"]
  BY DEF EnsureKV, EnsureKVHit, EnsureKVLoad, EnsureKVFails, Answer, Critical,
         Holding, convVars, reqVars
<1>2. TypeOK /\ HandlerBounds(h) /\ pc \in [Handlers -> PCs] /\ conv[h] # NoConv
  BY <1>1 DEF Bounds, TypeOK, HandlerBounds
<1>3. /\ kv' \in Seq(Rows)
      /\ lastLogits' \in [Convs -> Seq(Rows) \cup {NoLogits}]
      /\ kvConv' \in Convs \cup {NoConv}
  <2>1. CASE EnsureKVHit(h)
    BY <1>2, <2>1 DEF EnsureKVHit, convVars, TypeOK
  <2>2. CASE EnsureKVLoad(h)
    <3>1. Entries(History(conv[h]), 0) \in Seq(Rows)
      BY <1>1, Mine, EntriesType DEF Rows
    <3>2. conv[h] \in Convs
      BY <1>1, Mine
    <3> QED BY <1>2, <2>2, <3>1, <3>2 DEF EnsureKVLoad, TypeOK
  <2>3. CASE EnsureKVFails(h)
    <3>1. PICK n \in 0..len[conv[h]] : kv' = Entries(SubSeq(mem[conv[h]], 1, n), 0)
      BY <2>3 DEF EnsureKVFails
    <3>2. n \in Nat /\ n <= Len(mem[conv[h]]) /\ mem[conv[h]] \in Seq(Tokens)
      BY <1>1, <3>1, Mine
    <3>3. kv' \in Seq(Rows)
      BY <3>1, <3>2, PrefixRows
    <3> QED BY <1>2, <2>3, <3>3 DEF EnsureKVFails, TypeOK
  <2> QED BY <1>1, <2>1, <2>2, <2>3 DEF EnsureKV
<1>4. TypeOK'
  BY <1>1, <1>2, <1>3 DEF TypeOK, PCs, Critical
<1>5. pc'[h] \in {"start", "reply"} /\ (pc'[h] = "reply" => status'[h] = "error")
  BY <1>1, <1>2 DEF TypeOK
<1>6. \A g \in Handlers \ {h} : pc'[g] = pc[g] /\ conv'[g] = conv[g]
  BY <1>1, <1>2
<1>7. HandlerBounds(h)'
  BY <1>1, <1>2, <1>5 DEF HandlerBounds, Holding
<1>8. OneForwardInFlight'
  BY <1>1, <1>5, <1>6, KeepsLock DEF Critical
<1> QED BY <1>1, <1>4, <1>6, <1>7, <1>8, OthersUndisturbed DEF Bounds

\* startGeneration, whichever way it returns.
LEMMA PrefillBounds ==
  ASSUME Bounds, NEW h \in Handlers, Prefill(h)
  PROVE  Bounds'
<1> DEFINE c == conv[h]
<1>1. /\ pc[h] = "start" /\ pc[h] \in Critical /\ pc[h] \in Holding
      /\ pc' = [pc EXCEPT ![h] = "decode"]
      /\ kv' = BaseKV(h) \o Entries(NewTokens(h), Cached(h))
      /\ mem' = [mem EXCEPT ![c] = Extend(mem[c], Cached(h), NewTokens(h))]
      /\ len' = [len EXCEPT ![c] = Len(prompt[h])]
      /\ lastLogits' = [lastLogits EXCEPT ![c] = kv']
      /\ logits' = [logits EXCEPT ![h] = kv']
      /\ snap' = [snap EXCEPT ![h] = len[c]]
      /\ UNCHANGED <<sessions, inferMu, kvConv, conv, prompt, gen, status>>
  BY DEF Prefill, Starting, Critical, Holding
<1>2. TypeOK /\ HandlerBounds(h)
  BY DEF Bounds
<1>3. /\ c \in Convs /\ mem[c] \in Seq(Tokens) /\ len[c] \in Nat
      /\ len[c] <= Len(mem[c]) /\ Len(mem[c]) \in Nat
  BY <1>1, Mine
<1>4. /\ Cached(h) \in Nat /\ Cached(h) <= len[c]
      /\ NewTokens(h) \in Seq(Tokens) /\ Len(NewTokens(h)) \in Nat
      /\ Cached(h) + Len(NewTokens(h)) = Len(prompt[h])
      /\ Live(mem[c], Cached(h)) \o NewTokens(h) = prompt[h]
      /\ BaseKV(h) \in Seq(Rows)
  BY <1>2, <1>3, StartFacts
<1>5. /\ mem'[c] \in Seq(Tokens)
      /\ Len(prompt[h]) <= Len(mem'[c])
      /\ Len(mem[c]) <= Len(mem'[c])
      /\ Live(mem'[c], Len(prompt[h])) = prompt[h]
  <2> DEFINE E == Extend(mem[c], Cached(h), NewTokens(h))
  <2>1. Cached(h) <= Len(mem[c])
    BY <1>3, <1>4
  <2>2. /\ E \in Seq(Tokens)
        /\ Cached(h) + Len(NewTokens(h)) <= Len(E)
        /\ Len(mem[c]) <= Len(E)
        /\ Live(E, Cached(h) + Len(NewTokens(h))) = Live(mem[c], Cached(h)) \o NewTokens(h)
    BY <1>3, <1>4, <2>1, ExtendLive
  <2> HIDE DEF E
  <2>3. mem'[c] = E
    BY <1>1, <1>2, <1>3 DEF TypeOK, E
  <2> QED BY <1>4, <2>2, <2>3
<1>6. kv' \in Seq(Rows)
  BY <1>1, <1>4, EntriesType, ConcatProperties DEF Rows
<1>7. Len(prompt[h]) \in Nat
  BY <1>2, LenProperties DEF TypeOK
<1>8. TypeOK'
  <2>1. mem' \in [Convs -> Seq(Tokens)] /\ len' \in [Convs -> Nat]
    BY <1>1, <1>2, <1>3, <1>5, <1>7 DEF TypeOK
  <2>2. \A d \in Convs : len'[d] <= Len(mem'[d])
    BY <1>1, <1>2, <1>3, <1>5 DEF TypeOK
  <2>3. /\ lastLogits' \in [Convs -> Seq(Rows) \cup {NoLogits}]
        /\ logits' \in [Handlers -> Seq(Rows) \cup {NoLogits}]
        /\ snap' \in [Handlers -> Nat]
        /\ pc' \in [Handlers -> PCs]
    BY <1>1, <1>2, <1>3, <1>6 DEF TypeOK, PCs, Critical
  <2> QED BY <1>1, <1>2, <1>6, <2>1, <2>2, <2>3 DEF TypeOK
<1>9. pc'[h] = "decode" /\ snap'[h] = len[c] /\ len'[c] = Len(prompt[h])
  BY <1>1, <1>2, <1>3 DEF TypeOK
<1>10. \A g \in Handlers \ {h} : pc'[g] = pc[g] /\ conv'[g] = conv[g]
  BY <1>1, <1>2 DEF TypeOK
<1>11. HandlerBounds(h)'
  <2>1. History(conv[h])' = prompt'[h]
    BY <1>1, <1>5, <1>9 DEF History
  <2>2. snap'[h] <= Len(mem'[conv'[h]])
    <3>1. Len(mem'[c]) \in Nat
      BY <1>5, LenProperties
    <3> QED BY <1>1, <1>3, <1>5, <1>9, <3>1
  <2>3. conv'[h] # NoConv
    BY <1>1, <1>3, DistinctAssumption
  <2> QED BY <1>9, <2>1, <2>2, <2>3 DEF HandlerBounds, Holding
<1>12. OneForwardInFlight'
  BY <1>1, <1>9, <1>10, KeepsLock DEF Critical
<1> QED BY <1>1, <1>8, <1>10, <1>11, <1>12, OthersUndisturbed DEF Bounds

\* startGeneration returns an error: a failed prefill, an empty prompt or an
\* empty delta without logits; the slice is at most cut.
LEMMA StartFailsBounds ==
  ASSUME Bounds, NEW h \in Handlers, PrefillFails(h) \/ StartEmptyFails(h)
  PROVE  Bounds'
<1> DEFINE c == conv[h]
<1>1. /\ pc[h] = "start" /\ pc[h] \in Critical /\ pc[h] \in Holding
      /\ len' = [len EXCEPT ![c] = Cached(h)]
      /\ lastLogits' = [lastLogits EXCEPT ![c] = BaseLogits(h)]
      /\ UNCHANGED <<mem, sessions, inferMu, kvConv, conv, prompt, gen, logits>>
      /\ \/ /\ pc' = [pc EXCEPT ![h] = "rollback"]
            /\ snap' = [snap EXCEPT ![h] = Cached(h)]
            /\ status' = status
         \/ /\ pc' = [pc EXCEPT ![h] = "reply"]
            /\ snap' = snap
            /\ status' = [status EXCEPT ![h] = "error"]
  BY DEF PrefillFails, StartEmptyFails, Starting, Answer, Critical, Holding
<1>2. TypeOK /\ HandlerBounds(h)
  BY DEF Bounds
<1>3. /\ c \in Convs /\ mem[c] \in Seq(Tokens) /\ len[c] \in Nat
      /\ len[c] <= Len(mem[c]) /\ Len(mem[c]) \in Nat
  BY <1>1, Mine
<1>4. /\ Cached(h) \in Nat /\ Cached(h) <= len[c]
      /\ NewTokens(h) \in Seq(Tokens) /\ Len(NewTokens(h)) \in Nat
      /\ BaseKV(h) \in Seq(Rows)
      /\ BaseLogits(h) \in Seq(Rows) \cup {NoLogits}
  BY <1>2, <1>3, StartFacts
<1>5. kv' \in Seq(Rows)
  <2>1. CASE PrefillFails(h)
    <3>1. CASE kv' = << >>
      BY <3>1
    <3>2. CASE kv' # << >>
      <4>1. PICK n \in 0..Len(NewTokens(h)) :
              kv' = BaseKV(h) \o Entries(SubSeq(NewTokens(h), 1, n), Cached(h))
        BY <2>1, <3>2 DEF PrefillFails
      <4>2. Entries(SubSeq(NewTokens(h), 1, n), Cached(h)) \in Seq(Rows)
        BY <1>4, PrefixRows
      <4> QED BY <1>4, <4>1, <4>2, ConcatProperties
    <3> QED BY <3>1, <3>2
  <2>2. CASE StartEmptyFails(h)
    BY <1>4, <2>2 DEF StartEmptyFails
  <2> QED BY <2>1, <2>2
<1>6. TypeOK'
  <2>1. len' \in [Convs -> Nat] /\ \A d \in Convs : len'[d] <= Len(mem'[d])
    BY <1>1, <1>2, <1>3, <1>4 DEF TypeOK
  <2>2. /\ lastLogits' \in [Convs -> Seq(Rows) \cup {NoLogits}]
        /\ snap' \in [Handlers -> Nat]
        /\ pc' \in [Handlers -> PCs]
        /\ status' \in [Handlers -> {"none", "ok", "error"}]
    BY <1>1, <1>2, <1>4 DEF TypeOK, PCs, Critical
  <2> QED BY <1>1, <1>2, <1>5, <2>1, <2>2 DEF TypeOK
<1>7. \/ pc'[h] = "rollback" /\ snap'[h] = Cached(h)
      \/ pc'[h] = "reply" /\ status'[h] = "error"
  BY <1>1, <1>2 DEF TypeOK
<1>8. \A g \in Handlers \ {h} : pc'[g] = pc[g] /\ conv'[g] = conv[g]
  BY <1>1, <1>2 DEF TypeOK
<1>9. HandlerBounds(h)'
  <2>1. CASE pc'[h] = "rollback" /\ snap'[h] = Cached(h)
    <3>1. conv'[h] # NoConv /\ snap'[h] <= Len(mem'[conv'[h]])
      BY <1>1, <1>3, <1>4, <2>1, DistinctAssumption
    <3> QED BY <2>1, <3>1 DEF HandlerBounds, Holding
  <2>2. CASE pc'[h] = "reply" /\ status'[h] = "error"
    BY <2>2 DEF HandlerBounds, Holding
  <2> QED BY <1>7, <2>1, <2>2
<1>10. OneForwardInFlight'
  BY <1>1, <1>7, <1>8, KeepsLock DEF Critical
<1> QED BY <1>1, <1>6, <1>8, <1>9, <1>10, OthersUndisturbed DEF Bounds

\* The remaining steps of a completion that leave the slices alone.
LEMMA ReadOnlyBounds ==
  ASSUME Bounds, NEW h \in Handlers,
         StartRefused(h) \/ EmptyDelta(h) \/ DecodeEnd(h)
  PROVE  Bounds'
<1>1. /\ pc[h] \in {"start", "decode"} /\ pc[h] \in Critical /\ pc[h] \in Holding
      /\ UNCHANGED <<mem, len, lastLogits, kv, sessions, inferMu, kvConv, conv,
                     prompt, gen>>
      /\ \/ /\ pc' = [pc EXCEPT ![h] = "reply"]
            /\ status' = [status EXCEPT ![h] = "error"]
            /\ UNCHANGED <<logits, snap>>
         \/ /\ pc' = [pc EXCEPT ![h] = "commit"]
            /\ pc[h] = "decode"
            /\ UNCHANGED <<logits, snap, status>>
         \/ /\ pc' = [pc EXCEPT ![h] = "decode"]
            /\ EmptyDelta(h)
            /\ logits' = [logits EXCEPT ![h] = lastLogits[conv[h]]]
            /\ snap' = [snap EXCEPT ![h] = len[conv[h]]]
            /\ UNCHANGED status
  BY DEF StartRefused, EmptyDelta, DecodeEnd, Starting, Answer, Critical,
         Holding, convVars, reqVars
<1>2. TypeOK /\ HandlerBounds(h)
  BY DEF Bounds
<1>3. /\ conv[h] \in Convs /\ mem[conv[h]] \in Seq(Tokens) /\ len[conv[h]] \in Nat
      /\ len[conv[h]] <= Len(mem[conv[h]]) /\ Len(mem[conv[h]]) \in Nat
      /\ History(conv[h]) \in Seq(Tokens)
  BY <1>1, Mine
<1>4. TypeOK'
  BY <1>1, <1>2, <1>3 DEF TypeOK, PCs, Critical
<1>5. \/ pc'[h] = "reply" /\ status'[h] = "error"
      \/ pc'[h] = "commit" /\ pc[h] = "decode"
      \/ pc'[h] = "decode" /\ snap'[h] = len[conv[h]] /\ EmptyDelta(h)
  BY <1>1, <1>2 DEF TypeOK
<1>6. \A g \in Handlers \ {h} : pc'[g] = pc[g] /\ conv'[g] = conv[g]
  BY <1>1, <1>2 DEF TypeOK
<1>7. EmptyDelta(h) => History(conv[h]) = prompt[h]
  <2> SUFFICES ASSUME EmptyDelta(h) PROVE History(conv[h]) = prompt[h]
    OBVIOUS
  <2>1. NewTokens(h) = <<>> /\ Cached(h) > 0
    BY DEF EmptyDelta
  <2>2. Cached(h) = len[conv[h]]
    BY <2>1 DEF Cached
  <2>3. Live(mem[conv[h]], Cached(h)) \o NewTokens(h) = prompt[h]
    BY <1>2, <1>3, StartFacts
  <2>4. History(conv[h]) \o <<>> = prompt[h]
    BY <2>1, <2>2, <2>3 DEF History
  <2> QED BY <1>3, <2>4, ConcatEmptySeq
<1>8. HandlerBounds(h)'
  <2>1. CASE pc'[h] = "reply" /\ status'[h] = "error"
    BY <2>1 DEF HandlerBounds, Holding
  <2>2. CASE pc'[h] = "commit" /\ pc[h] = "decode"
    BY <1>1, <1>2, <2>2 DEF HandlerBounds, Holding, History
  <2>3. CASE pc'[h] = "decode" /\ snap'[h] = len[conv[h]] /\ EmptyDelta(h)
    <3>1. conv'[h] # NoConv /\ snap'[h] <= Len(mem'[conv'[h]])
      BY <1>1, <1>3, <2>3, DistinctAssumption
    <3>2. History(conv[h])' = prompt'[h]
      BY <1>1, <1>7, <2>3 DEF History
    <3> QED BY <2>3, <3>1, <3>2 DEF HandlerBounds, Holding
  <2> QED BY <1>5, <2>1, <2>2, <2>3
<1>9. OneForwardInFlight'
  BY <1>1, <1>5, <1>6, KeepsLock DEF Critical
<1> QED BY <1>1, <1>4, <1>6, <1>8, <1>9, OthersUndisturbed DEF Bounds

\* A decode step, whether its Forward succeeds or not, leaves the slices alone.
LEMMA DecodeBounds ==
  ASSUME Bounds, NEW h \in Handlers, NEW t \in Tokens,
         DecodeToken(h, t) \/ DecodeFails(h, t)
  PROVE  Bounds'
<1>1. /\ pc[h] = "decode" /\ pc[h] \in Critical /\ pc[h] \in Holding
      /\ gen' = [gen EXCEPT ![h] = Append(gen[h], t)]
      /\ kv' = kv \/ kv' = << >> \/ kv' = kv \o Entries(<<t>>, Position(h))
      /\ \/ logits' = [logits EXCEPT ![h] = kv']
         \/ logits' = logits
      /\ \/ pc' = pc
         \/ pc' = [pc EXCEPT ![h] = "commit"]
         \/ pc' = [pc EXCEPT ![h] = "rollback"]
      /\ UNCHANGED <<mem, len, lastLogits, sessions, inferMu, kvConv, conv,
                     prompt, snap, status>>
  BY DEF DecodeToken, DecodeFails, Critical, Holding, convVars
<1>2. TypeOK /\ HandlerBounds(h)
  BY DEF Bounds
<1>3. conv[h] \in Convs
  BY <1>1, Mine
<1>4. Append(gen[h], t) \in Seq(Tokens) /\ Position(h) \in Nat
  BY <1>2, AppendProperties, LenProperties DEF TypeOK, Position
<1>5. kv' \in Seq(Rows)
  <2>1. <<t>> \in Seq(Tokens)
    OBVIOUS
  <2>2. Entries(<<t>>, Position(h)) \in Seq(Rows)
    BY <1>4, <2>1, EntriesType DEF Rows
  <2>3. kv \in Seq(Rows)
    BY <1>2 DEF TypeOK
  <2>4. kv \o Entries(<<t>>, Position(h)) \in Seq(Rows)
    BY <2>2, <2>3, ConcatProperties
  <2>5. << >> \in Seq(Rows)
    OBVIOUS
  <2> QED BY <1>1, <2>3, <2>4, <2>5, Zenon
<1>6. TypeOK'
  BY <1>1, <1>2, <1>4, <1>5 DEF TypeOK, PCs, Critical
<1>7. pc'[h] \in {"decode", "commit", "rollback"}
  BY <1>1, <1>2 DEF TypeOK
<1>8. \A g \in Handlers \ {h} : pc'[g] = pc[g] /\ conv'[g] = conv[g]
  BY <1>1, <1>2 DEF TypeOK
<1>9. HandlerBounds(h)'
  BY <1>1, <1>2, <1>7 DEF HandlerBounds, Holding, History
<1>10. OneForwardInFlight'
  BY <1>1, <1>7, <1>8, KeepsLock DEF Critical
<1> QED BY <1>1, <1>6, <1>8, <1>9, <1>10, OthersUndisturbed DEF Bounds

\* Commit appends what was generated to the prompt's history.
LEMMA CommitBounds ==
  ASSUME Bounds, NEW h \in Handlers, Commit(h)
  PROVE  Bounds'
<1> DEFINE c == conv[h]
<1>1. /\ pc[h] = "commit" /\ pc[h] \in Critical /\ pc[h] \in Holding
      /\ mem' = [mem EXCEPT ![c] = Extend(mem[c], len[c], gen[h])]
      /\ len' = [len EXCEPT ![c] = len[c] + Len(gen[h])]
      /\ lastLogits' = [lastLogits EXCEPT ![c] = logits[h]]
      /\ pc' = [pc EXCEPT ![h] = "reply"]
      /\ status' = [status EXCEPT ![h] = "ok"]
      /\ UNCHANGED <<kv, sessions, inferMu, kvConv, conv, prompt, gen, logits, snap>>
  BY DEF Commit, Answer, Critical, Holding
<1>2. TypeOK /\ HandlerBounds(h)
  BY DEF Bounds
<1>3. /\ c \in Convs /\ mem[c] \in Seq(Tokens) /\ len[c] \in Nat
      /\ len[c] <= Len(mem[c]) /\ Len(mem[c]) \in Nat
  BY <1>1, Mine
<1>4. gen[h] \in Seq(Tokens) /\ Len(gen[h]) \in Nat
  BY <1>2, LenProperties DEF TypeOK
<1>5. /\ mem'[c] \in Seq(Tokens)
      /\ len'[c] = len[c] + Len(gen[h])
      /\ len'[c] <= Len(mem'[c])
      /\ Live(mem'[c], len'[c]) = prompt[h] \o gen[h]
  <2> DEFINE E == Extend(mem[c], len[c], gen[h])
  <2>1. /\ E \in Seq(Tokens)
        /\ len[c] + Len(gen[h]) <= Len(E)
        /\ Live(E, len[c] + Len(gen[h])) = Live(mem[c], len[c]) \o gen[h]
    <3> DEFINE m == mem[c]
               l == len[c]
               ts == gen[h]
    <3>1. m \in Seq(Tokens) /\ l \in Nat /\ l <= Len(m) /\ ts \in Seq(Tokens)
      BY <1>3, <1>4
    <3> HIDE DEF m, l, ts
    <3>2. /\ Extend(m, l, ts) \in Seq(Tokens)
          /\ l + Len(ts) <= Len(Extend(m, l, ts))
          /\ Live(Extend(m, l, ts), l + Len(ts)) = Live(m, l) \o ts
      BY <3>1, ExtendLive
    <3> QED BY <3>2 DEF m, l, ts
  <2>2. Live(mem[c], len[c]) = prompt[h]
    BY <1>1, <1>2 DEF HandlerBounds, History
  <2> HIDE DEF E
  <2>3. mem'[c] = E /\ len'[c] = len[c] + Len(gen[h])
    BY <1>1, <1>2, <1>3 DEF TypeOK, E
  <2> QED BY <2>1, <2>2, <2>3
<1>6. TypeOK'
  <2>1. mem' \in [Convs -> Seq(Tokens)] /\ len' \in [Convs -> Nat]
    BY <1>1, <1>2, <1>3, <1>4, <1>5 DEF TypeOK
  <2>2. \A d \in Convs : len'[d] <= Len(mem'[d])
    BY <1>1, <1>2, <1>3, <1>5 DEF TypeOK
  <2>3. /\ lastLogits' \in [Convs -> Seq(Rows) \cup {NoLogits}]
        /\ pc' \in [Handlers -> PCs]
        /\ status' \in [Handlers -> {"none", "ok", "error"}]
    BY <1>1, <1>2 DEF TypeOK, PCs, Critical
  <2> QED BY <1>1, <1>2, <2>1, <2>2, <2>3 DEF TypeOK
<1>7. pc'[h] = "reply"
  BY <1>1, <1>2 DEF TypeOK
<1>8. \A g \in Handlers \ {h} : pc'[g] = pc[g] /\ conv'[g] = conv[g]
  BY <1>1, <1>2 DEF TypeOK
<1>9. HandlerBounds(h)'
  BY <1>1, <1>5, <1>7 DEF HandlerBounds, Holding, History
<1>10. OneForwardInFlight'
  BY <1>1, <1>7, <1>8, KeepsLock DEF Critical
<1> QED BY <1>1, <1>6, <1>8, <1>9, <1>10, OthersUndisturbed DEF Bounds

\* A rollback reslices within the array, whether its replay succeeds or not.
LEMMA RollbackBounds ==
  ASSUME Bounds, NEW h \in Handlers, Rollback(h) \/ RollbackFails(h)
  PROVE  Bounds'
<1> DEFINE c == conv[h]
           saved == SubSeq(mem[c], 1, snap[h])
<1>1. /\ pc[h] = "rollback" /\ pc[h] \in Critical /\ pc[h] \in Holding
      /\ pc' = [pc EXCEPT ![h] = "reply"]
      /\ status' = [status EXCEPT ![h] = "error"]
      /\ UNCHANGED <<sessions, inferMu, kvConv, conv, prompt, gen, logits, snap>>
  BY DEF Rollback, RollbackFails, Answer, Critical, Holding
<1>2. TypeOK /\ HandlerBounds(h)
  BY DEF Bounds
<1>3. /\ c \in Convs /\ mem[c] \in Seq(Tokens) /\ len[c] \in Nat
      /\ snap[h] \in Nat /\ snap[h] <= Len(mem[c])
  BY <1>1, <1>2, Mine DEF HandlerBounds, TypeOK
<1>4. saved \in Seq(Tokens) /\ Len(saved) = snap[h] /\ Entries(saved, 0) \in Seq(Rows)
  BY <1>3, PrefixRows
<1>5. /\ kv' \in Seq(Rows)
      /\ mem' \in [Convs -> Seq(Tokens)]
      /\ len' \in [Convs -> Nat]
      /\ lastLogits' \in [Convs -> Seq(Rows) \cup {NoLogits}]
      /\ \A d \in Convs : len'[d] <= Len(mem'[d])
  <2>1. CASE Rollback(h)
    <3> HIDE DEF saved
    <3>1. /\ kv' = Entries(saved, 0)
          /\ mem' = [mem EXCEPT ![c] = IF snap[h] = 0 THEN mem[c] ELSE saved]
          /\ len' = [len EXCEPT ![c] = snap[h]]
          /\ lastLogits' = [lastLogits EXCEPT ![c] = IF snap[h] = 0 THEN NoLogits ELSE kv']
      BY <2>1 DEF Rollback, saved
    <3>2. mem' \in [Convs -> Seq(Tokens)] /\ len' \in [Convs -> Nat]
      BY <1>2, <1>3, <1>4, <3>1 DEF TypeOK
    <3>3. \A d \in Convs : len'[d] <= Len(mem'[d])
      BY <1>2, <1>3, <1>4, <3>1 DEF TypeOK
    <3> QED BY <1>2, <1>4, <3>1, <3>2, <3>3 DEF TypeOK
  <2>2. CASE RollbackFails(h)
    <3>1. PICK n \in 0..snap[h] : kv' = Entries(SubSeq(mem[c], 1, n), 0)
      BY <2>2 DEF RollbackFails
    <3>2. kv' \in Seq(Rows)
      <4>1. n \in Nat /\ n <= Len(mem[c])
        BY <1>3, <3>1, LenProperties
      <4> QED BY <1>3, <3>1, <4>1, PrefixRows
    <3>3. /\ mem' = mem
          /\ len' = [len EXCEPT ![c] = 0]
          /\ lastLogits' = [lastLogits EXCEPT ![c] = NoLogits]
      BY <2>2 DEF RollbackFails
    <3>4. \A d \in Convs : len'[d] <= Len(mem'[d])
      BY <1>2, <3>3, LenProperties DEF TypeOK
    <3> QED BY <1>2, <3>2, <3>3, <3>4 DEF TypeOK
  <2> QED BY <2>1, <2>2
<1>6. TypeOK'
  BY <1>1, <1>2, <1>5 DEF TypeOK, PCs, Critical
<1>7. pc'[h] = "reply" /\ status'[h] = "error"
  BY <1>1, <1>2 DEF TypeOK
<1>8. \A g \in Handlers \ {h} : pc'[g] = pc[g] /\ conv'[g] = conv[g]
  BY <1>1, <1>2 DEF TypeOK
<1>9. HandlerBounds(h)'
  BY <1>1, <1>7 DEF HandlerBounds, Holding
<1>10. OneForwardInFlight'
  BY <1>1, <1>7, <1>8, KeepsLock DEF Critical
<1> QED BY <1>1, <1>6, <1>8, <1>9, <1>10, OthersUndisturbed DEF Bounds

\* An embeddings request touches no conversation.
LEMMA EmbeddingsBounds ==
  ASSUME Bounds, NEW h \in Handlers, Embeddings(h)
  PROVE  Bounds'
<1>1. /\ pc[h] \in {"embed", "embedding"} /\ pc[h] \in Critical
      /\ \/ pc' = [pc EXCEPT ![h] = "embedding"]
         \/ pc' = [pc EXCEPT ![h] = "embed"]
         \/ pc' = [pc EXCEPT ![h] = "reply"]
      /\ \E s \in {"ok", "error", status[h]} : status' = [status EXCEPT ![h] = s]
      /\ UNCHANGED <<mem, len, lastLogits, sessions, inferMu, kvConv, conv,
                     prompt, gen, logits, snap>>
  <2>1. status = [status EXCEPT ![h] = status[h]]
    BY DEF Bounds, TypeOK
  <2>2. CASE Embed(h)
    BY <2>2 DEF Embed, Critical, convVars
  <2>3. CASE EmbedReset(h)
    BY <2>1, <2>3 DEF EmbedReset, Critical, convVars, reqVars
  <2>4. CASE EmbedEmpty(h)
    BY <2>4 DEF EmbedEmpty, Answer, Critical, convVars
  <2> QED BY <2>2, <2>3, <2>4 DEF Embeddings
<1>2. TypeOK /\ HandlerBounds(h)
  BY DEF Bounds
<1>3. kv' \in Seq(Rows)
  <2>1. CASE Embed(h)
    <3>1. PICK n \in 0..Len(prompt[h]) : kv' = Entries(SubSeq(prompt[h], 1, n), 0)
      BY <2>1 DEF Embed
    <3>2. prompt[h] \in Seq(Tokens) /\ Len(prompt[h]) \in Nat
      BY <1>2, LenProperties DEF TypeOK
    <3>3. n \in Nat /\ n <= Len(prompt[h])
      BY <3>1, <3>2
    <3> QED BY <3>1, <3>2, <3>3, PrefixRows
  <2>2. CASE EmbedReset(h)
    BY <2>2, EmptySeq DEF EmbedReset
  <2>3. CASE EmbedEmpty(h)
    BY <1>2, <2>3 DEF EmbedEmpty, TypeOK
  <2> QED BY <2>1, <2>2, <2>3 DEF Embeddings
<1>4. TypeOK'
  <2>1. status' \in [Handlers -> {"none", "ok", "error"}]
    BY <1>1, <1>2 DEF TypeOK
  <2> QED BY <1>1, <1>2, <1>3, <2>1 DEF TypeOK, PCs, Critical
<1>5. pc'[h] \in {"embed", "embedding", "reply"}
  BY <1>1, <1>2 DEF TypeOK
<1>6. \A g \in Handlers \ {h} : pc'[g] = pc[g] /\ conv'[g] = conv[g]
  BY <1>1, <1>2 DEF TypeOK
<1>7. HandlerBounds(h)'
  BY <1>1, <1>2, <1>5 DEF HandlerBounds, Holding
<1>8. OneForwardInFlight'
  BY <1>1, <1>5, <1>6, KeepsLock DEF Critical
<1> QED BY <1>1, <1>4, <1>6, <1>7, <1>8, OthersUndisturbed DEF Bounds

\* A waiting handler enters only when the lock is free.
LEMMA LockBounds ==
  ASSUME Bounds, NEW h \in Handlers, Lock(h) \/ LockEmbeddings(h)
  PROVE  Bounds'
<1>1. /\ inferMu = Free /\ inferMu' = h
      /\ UNCHANGED <<mem, len, lastLogits, kv, sessions, conv, prompt, gen,
                     logits, snap, status>>
      /\ \/ pc[h] = "waiting" /\ pc' = [pc EXCEPT ![h] = "ensure"] /\ kvConv' = kvConv
         \/ pc[h] = "waitingEmbed" /\ pc' = [pc EXCEPT ![h] = "embed"] /\ kvConv' = NoConv
  BY DEF Lock, LockEmbeddings, convVars, reqVars
<1>2. TypeOK /\ OneForwardInFlight /\ \A g \in Handlers : HandlerBounds(g)
  BY DEF Bounds
<1>3. \A g \in Handlers : pc[g] \notin Critical
  BY <1>1, <1>2, DistinctAssumption DEF OneForwardInFlight
<1>4. TypeOK'
  BY <1>1, <1>2 DEF TypeOK, PCs, Critical
<1>5. /\ pc'[h] \in {"ensure", "embed"}
      /\ \A g \in Handlers \ {h} : pc'[g] = pc[g]
  BY <1>1, <1>2 DEF TypeOK
<1>6. OneForwardInFlight'
  BY <1>1, <1>3, <1>5 DEF OneForwardInFlight, Critical
<1>7. ASSUME NEW g \in Handlers PROVE HandlerBounds(g)'
  <2>1. CASE g = h
    <3>1. \/ pc'[h] = "ensure" /\ conv'[h] # NoConv
          \/ pc'[h] = "embed" /\ conv'[h] = NoConv
      BY <1>1, <1>2 DEF HandlerBounds, Holding, TypeOK
    <3> QED BY <2>1, <3>1 DEF HandlerBounds, Holding
  <2>2. CASE g # h
    <3>1. pc'[g] = pc[g] /\ pc[g] \notin Critical /\ conv'[g] = conv[g] /\ HandlerBounds(g)
      BY <1>1, <1>2, <1>3, <1>5, <2>2
    <3> QED BY <3>1 DEF HandlerBounds, Holding, Critical
  <2> QED BY <2>1, <2>2
<1> QED BY <1>4, <1>6, <1>7 DEF Bounds

\* A handler that returns releases the lock and drops its locals.
LEMMA ReplyBounds ==
  ASSUME Bounds, NEW h \in Handlers, Reply(h)
  PROVE  Bounds'
<1>1. /\ pc[h] = "reply" /\ pc[h] \in Critical
      /\ inferMu' = Free
      /\ pc' = [pc EXCEPT ![h] = "idle"]
      /\ conv' = [conv EXCEPT ![h] = NoConv]
      /\ UNCHANGED <<mem, len, lastLogits, kv, sessions, kvConv>>
  BY DEF Reply, convVars, Critical
<1>2. TypeOK /\ OneForwardInFlight
  BY DEF Bounds
<1>3. TypeOK'
  BY <1>1, <1>2, EmptySeq DEF Reply, TypeOK, PCs
<1>4. /\ pc'[h] = "idle" /\ conv'[h] = NoConv
      /\ \A g \in Handlers \ {h} : pc'[g] = pc[g] /\ conv'[g] = conv[g]
  BY <1>1, <1>2 DEF TypeOK
<1>5. \A g \in Handlers \ {h} : pc[g] \notin Critical /\ HandlerBounds(g)'
  BY <1>1, <1>4, OthersUndisturbed
<1>6. OneForwardInFlight'
  BY <1>1, <1>4, <1>5, DistinctAssumption DEF OneForwardInFlight, Critical
<1>7. HandlerBounds(h)'
  BY <1>4 DEF HandlerBounds, Holding
<1> QED BY <1>3, <1>5, <1>6, <1>7 DEF Bounds

\* What conversationForSession does to the conversations others hold: nothing.
LEMMA SessionFacts ==
  ASSUME Bounds, NEW h \in Handlers, NEW s \in SessionIDs, conv[h] = NoConv,
         ConversationForSession(h, s)
  PROVE  /\ mem' \in [Convs -> Seq(Tokens)]
         /\ len' \in [Convs -> Nat]
         /\ \A c \in Convs : len'[c] <= Len(mem'[c])
         /\ lastLogits' \in [Convs -> Seq(Rows) \cup {NoLogits}]
         /\ sessions' \in [SessionIDs \ {Anonymous} -> Convs \cup {NoConv}]
         /\ conv' \in [Handlers -> Convs \cup {NoConv}]
         /\ conv'[h] \in Convs
         /\ \A g \in Handlers \ {h} : conv'[g] = conv[g]
         /\ \A c \in Convs : \/ mem'[c] = mem[c] /\ len'[c] = len[c] /\ lastLogits'[c] = lastLogits[c]
                             \/ /\ Unreferenced(c)
                                /\ mem'[c] = <<>> /\ len'[c] = 0 /\ lastLogits'[c] = NoLogits
<1>1. TypeOK
  BY DEF Bounds
<1>2. ASSUME NEW c \in Convs, NewConversation(h, c),
             \/ sessions' = sessions
             \/ s # Anonymous /\ sessions' = [sessions EXCEPT ![s] = c]
      PROVE  /\ mem' \in [Convs -> Seq(Tokens)]
             /\ len' \in [Convs -> Nat]
             /\ \A d \in Convs : len'[d] <= Len(mem'[d])
             /\ lastLogits' \in [Convs -> Seq(Rows) \cup {NoLogits}]
             /\ sessions' \in [SessionIDs \ {Anonymous} -> Convs \cup {NoConv}]
             /\ conv' \in [Handlers -> Convs \cup {NoConv}]
             /\ conv'[h] \in Convs
             /\ \A g \in Handlers \ {h} : conv'[g] = conv[g]
             /\ \A d \in Convs : \/ mem'[d] = mem[d] /\ len'[d] = len[d] /\ lastLogits'[d] = lastLogits[d]
                                 \/ /\ Unreferenced(d)
                                    /\ mem'[d] = <<>> /\ len'[d] = 0 /\ lastLogits'[d] = NoLogits
  <2>1. <<>> \in Seq(Tokens) /\ Len(<<>>) = 0
    BY EmptySeq
  <2>2. /\ Unreferenced(c)
        /\ mem' = [mem EXCEPT ![c] = <<>>]
        /\ len' = [len EXCEPT ![c] = 0]
        /\ lastLogits' = [lastLogits EXCEPT ![c] = NoLogits]
        /\ conv' = [conv EXCEPT ![h] = c]
    BY <1>2 DEF NewConversation
  <2>3. mem' \in [Convs -> Seq(Tokens)] /\ len' \in [Convs -> Nat]
    BY <1>1, <2>1, <2>2 DEF TypeOK
  <2>4. \A d \in Convs : len'[d] <= Len(mem'[d])
    BY <1>1, <2>1, <2>2 DEF TypeOK
  <2>5. /\ lastLogits' \in [Convs -> Seq(Rows) \cup {NoLogits}]
        /\ sessions' \in [SessionIDs \ {Anonymous} -> Convs \cup {NoConv}]
        /\ conv' \in [Handlers -> Convs \cup {NoConv}]
        /\ conv'[h] \in Convs
        /\ \A g \in Handlers \ {h} : conv'[g] = conv[g]
    BY <1>1, <1>2, <2>2 DEF TypeOK
  <2>6. \A d \in Convs : \/ mem'[d] = mem[d] /\ len'[d] = len[d] /\ lastLogits'[d] = lastLogits[d]
                         \/ /\ Unreferenced(d)
                            /\ mem'[d] = <<>> /\ len'[d] = 0 /\ lastLogits'[d] = NoLogits
    BY <1>1, <2>2 DEF TypeOK
  <2> QED BY <2>3, <2>4, <2>5, <2>6
<1>3. CASE /\ s # Anonymous /\ sessions[s] # NoConv
           /\ conv' = [conv EXCEPT ![h] = sessions[s]]
           /\ UNCHANGED <<sessions, convVars>>
  BY <1>1, <1>3 DEF TypeOK, convVars
<1> QED BY <1>2, <1>3 DEF ConversationForSession

\* An arriving request disturbs no conversation that another one refers to.
LEMMA ArriveBounds ==
  ASSUME Bounds, NEW h \in Handlers, Arrive(h)
  PROVE  Bounds'
<1>1. TypeOK /\ OneForwardInFlight /\ \A g \in Handlers : HandlerBounds(g)
  BY DEF Bounds
<1>2. CASE \E p \in Prompts : AcceptEmbeddings(h, p)
  <2>1. PICK p \in Prompts : AcceptEmbeddings(h, p)
    BY <1>2
  <2>2. /\ pc[h] = "idle" /\ pc' = [pc EXCEPT ![h] = "waitingEmbed"]
        /\ prompt' = [prompt EXCEPT ![h] = p]
        /\ UNCHANGED <<mem, len, lastLogits, kv, sessions, inferMu, kvConv, conv,
                       gen, logits, snap, status>>
    BY <2>1 DEF AcceptEmbeddings, convVars
  <2>3. TypeOK'
    BY <1>1, <2>2, PromptsAssumption DEF TypeOK, PCs
  <2>4. pc'[h] = "waitingEmbed" /\ \A g \in Handlers \ {h} : pc'[g] = pc[g] /\ prompt'[g] = prompt[g]
    BY <1>1, <2>2 DEF TypeOK
  <2>5. OneForwardInFlight'
    BY <1>1, <2>2, <2>4 DEF OneForwardInFlight, Critical
  <2>6. ASSUME NEW g \in Handlers PROVE HandlerBounds(g)'
    BY <1>1, <2>2, <2>4 DEF HandlerBounds, Holding, History
  <2> QED BY <2>3, <2>5, <2>6 DEF Bounds
<1>3. CASE \E p \in Prompts, s \in SessionIDs : Accept(h, s, p)
  <2>1. PICK p \in Prompts, s \in SessionIDs : Accept(h, s, p)
    BY <1>3
  <2>2. /\ pc[h] = "idle" /\ ConversationForSession(h, s)
        /\ pc' = [pc EXCEPT ![h] = "waiting"]
        /\ prompt' = [prompt EXCEPT ![h] = p]
        /\ UNCHANGED <<kv, inferMu, kvConv, gen, logits, snap, status>>
    BY <2>1 DEF Accept
  <2>3. conv[h] = NoConv
    BY <1>1, <2>2 DEF HandlerBounds
  <2>4. /\ mem' \in [Convs -> Seq(Tokens)]
        /\ len' \in [Convs -> Nat]
        /\ \A c \in Convs : len'[c] <= Len(mem'[c])
        /\ lastLogits' \in [Convs -> Seq(Rows) \cup {NoLogits}]
        /\ sessions' \in [SessionIDs \ {Anonymous} -> Convs \cup {NoConv}]
        /\ conv' \in [Handlers -> Convs \cup {NoConv}]
        /\ conv'[h] \in Convs
        /\ \A g \in Handlers \ {h} : conv'[g] = conv[g]
        /\ \A c \in Convs : (mem'[c] = mem[c] /\ len'[c] = len[c]) \/ Unreferenced(c)
    BY <2>2, <2>3, SessionFacts
  <2>5. TypeOK'
    <3>1. pc' \in [Handlers -> PCs] /\ prompt' \in [Handlers -> Seq(Tokens)]
      BY <1>1, <2>2, PromptsAssumption DEF TypeOK, PCs
    <3> QED BY <1>1, <2>2, <2>4, <3>1 DEF TypeOK
  <2>6. pc'[h] = "waiting" /\ \A g \in Handlers \ {h} : pc'[g] = pc[g] /\ prompt'[g] = prompt[g]
    BY <1>1, <2>2 DEF TypeOK
  <2>7. OneForwardInFlight'
    BY <1>1, <2>2, <2>6 DEF OneForwardInFlight, Critical
  <2>8. HandlerBounds(h)'
    BY <2>4, <2>6, DistinctAssumption DEF HandlerBounds, Holding
  <2>9. ASSUME NEW g \in Handlers \ {h} PROVE HandlerBounds(g)'
    <3>1. pc'[g] = pc[g] /\ prompt'[g] = prompt[g] /\ conv'[g] = conv[g] /\ HandlerBounds(g)
          /\ gen'[g] = gen[g] /\ snap'[g] = snap[g] /\ status'[g] = status[g]
      BY <1>1, <2>2, <2>4, <2>6
    <3>2. CASE conv[g] = NoConv
      BY <3>1, <3>2 DEF HandlerBounds, Holding
    <3>3. CASE conv[g] # NoConv
      <4>1. conv[g] \in Convs /\ ~ Unreferenced(conv[g])
        BY <1>1, <3>3 DEF TypeOK, Unreferenced
      <4>2. mem'[conv[g]] = mem[conv[g]] /\ len'[conv[g]] = len[conv[g]]
        BY <2>4, <4>1
      <4> QED BY <3>1, <4>2 DEF HandlerBounds, Holding, History
    <3> QED BY <3>2, <3>3
  <2> QED BY <2>5, <2>7, <2>8, <2>9 DEF Bounds
<1> QED BY <1>2, <1>3 DEF Arrive

\* Bounds is inductive: one step per action of Next.
LEMMA NextBounds == Bounds /\ [Next]_vars => Bounds'
<1> SUFFICES ASSUME Bounds, [Next]_vars PROVE Bounds'
  OBVIOUS
<1>1. CASE UNCHANGED vars
  BY <1>1 DEF vars, Bounds, TypeOK, OneForwardInFlight, HandlerBounds, History
<1>2. CASE Next
  <2>1. PICK h \in Handlers : Arrive(h) \/ Lock(h) \/ LockEmbeddings(h) \/ Work(h)
    BY <1>2 DEF Next
  <2>2. CASE Work(h)
    <3>1. CASE EnsureKV(h)
      BY <3>1, EnsureKVBounds
    <3>2. CASE StartGeneration(h)
      BY <3>2, PrefillBounds, StartFailsBounds, ReadOnlyBounds DEF StartGeneration
    <3>3. CASE GenerateSteps(h)
      BY <3>3, DecodeBounds, ReadOnlyBounds DEF GenerateSteps
    <3>4. CASE Commit(h) \/ Rollback(h) \/ RollbackFails(h)
      BY <3>4, CommitBounds, RollbackBounds
    <3>5. CASE Embeddings(h) \/ Reply(h)
      BY <3>5, EmbeddingsBounds, ReplyBounds
    <3> QED BY <2>2, <3>1, <3>2, <3>3, <3>4, <3>5 DEF Work
  <2> QED BY <2>1, <2>2, ArriveBounds, LockBounds
<1> QED BY <1>1, <1>2

\* Whatever fails: every variable keeps its type, one handler at a time is
\* inside, an answered request has committed its prompt and its answer, and a
\* rollback never reslices beyond the array.
THEOREM BoundsInvariant == Spec => []Bounds
BY InitBounds, NextBounds, PTL DEF Spec

\* Every reachable state is well typed; for the slices of the conversations,
\* the live length never exceeds what is stored.
THEOREM TypeCorrect == Spec => []TypeOK
<1>1. Bounds => TypeOK
  BY DEF Bounds
<1> QED BY <1>1, BoundsInvariant, PTL

\* Whatever fails, exactly the handler that is between Lock and Unlock owns
\* inferMu: one Forward is in flight, and no error path keeps the lock.
THEOREM LockDiscipline == Spec => []OneForwardInFlight
<1>1. Bounds => OneForwardInFlight
  BY DEF Bounds
<1> QED BY <1>1, BoundsInvariant, PTL

\* Whatever fails, a request answered with success leaves its conversation with
\* exactly its prompt and its answer.
THEOREM CommittedHistoryHolds == Spec => []CommittedHistory
<1>1. Bounds => CommittedHistory
  BY DEF Bounds, HandlerBounds, CommittedHistory
<1> QED BY <1>1, BoundsInvariant, PTL

\* Whatever fails, the reslice tokens[:tokenLen] of rollback cannot panic.
THEOREM RollbackInBoundsHolds == Spec => []RollbackInBounds
<1>1. Bounds => RollbackInBounds
  BY DEF Bounds, HandlerBounds, RollbackInBounds
<1> QED BY <1>1, BoundsInvariant, PTL

(* The cache, when no replay fails. *)

ReplaysSucceed == "load" \notin FaultPoints /\ "rollback" \notin FaultPoints

\* kvConv's claim about the cache, at any moment.
KVMatches == kvConv # NoConv => kv = Entries(History(kvConv), 0)

HandlerCache(h) ==
  /\ pc[h] \in {"idle", "waiting", "waitingEmbed", "ensure", "start"} => gen[h] = <<>>
  /\ pc[h] \in {"ensure", "start", "reply"} => KVMatches
  /\ pc[h] \in {"start", "decode", "commit", "rollback"} => kvConv = conv[h]
  /\ pc[h] \in {"decode", "commit"} =>
       /\ kv = Entries(prompt[h] \o gen[h], 0)
       /\ logits[h] = kv
       /\ Len(prompt[h]) > 0
  /\ pc[h] \in {"embed", "embedding"} => kvConv = NoConv

Coherent ==
  /\ Bounds
  /\ KVCoherent
  /\ LastLogitsFresh
  /\ \A h \in Handlers : HandlerCache(h)

\* The empty cache is coherent.
LEMMA InitCoherent == Init => Coherent
<1> SUFFICES ASSUME Init PROVE Coherent
  OBVIOUS
<1>1. KVCoherent /\ LastLogitsFresh
  BY DEF Init, KVCoherent, LastLogitsFresh
<1>2. \A h \in Handlers : HandlerCache(h)
  BY DEF Init, HandlerCache
<1> QED BY <1>1, <1>2, InitBounds DEF Coherent

\* A step under the lock: the others are outside and only keep gen empty.
LEMMA OthersCache ==
  ASSUME Coherent, NEW h \in Handlers, pc[h] \in Critical,
         \A g \in Handlers \ {h} : pc'[g] = pc[g] /\ gen'[g] = gen[g]
  PROVE  \A g \in Handlers \ {h} : HandlerCache(g)'
<1> SUFFICES ASSUME NEW g \in Handlers \ {h} PROVE HandlerCache(g)'
  OBVIOUS
<1>1. pc[g] \notin Critical
  BY DEF Coherent, Bounds, OneForwardInFlight
<1>2. pc'[g] = pc[g] /\ gen'[g] = gen[g] /\ HandlerCache(g)
  BY DEF Coherent
<1> QED BY <1>1, <1>2 DEF HandlerCache, Critical

\* While the lock is held, KVCoherent says nothing.
LEMMA LockedCoherent ==
  ASSUME Bounds, NEW h \in Handlers, pc[h] \in Critical, inferMu' = inferMu
  PROVE  KVCoherent'
BY DistinctAssumption DEF Bounds, OneForwardInFlight, KVCoherent

\* The rows startGeneration continues from are those of the tokens it keeps.
LEMMA BaseRows ==
  ASSUME Coherent, NEW h \in Handlers, pc[h] = "start"
  PROVE  /\ BaseKV(h) = Entries(Live(mem[conv[h]], Cached(h)), 0)
         /\ Resets(h) => Cached(h) = 0 /\ BaseLogits(h) = NoLogits
         /\ ~ Resets(h) => Cached(h) = len[conv[h]] /\ BaseLogits(h) = lastLogits[conv[h]]
<1>1. /\ kvConv = conv[h] /\ conv[h] # NoConv /\ KVMatches
  BY DEF Coherent, Bounds, HandlerCache, HandlerBounds, Holding
<1>2. CASE Resets(h)
  <2>1. Live(mem[conv[h]], 0) = <<>>
    BY SubSeqEmpty DEF Live
  <2>2. Entries(<<>>, 0) = <<>>
    <3>1. /\ Entries(<<>>, 0) \in Seq([tok : Tokens, pos : Nat])
          /\ Len(Entries(<<>>, 0)) = 0
      BY EmptySeq, EntriesType
    <3> QED BY <3>1, EmptySeq
  <2> QED BY <1>2, <2>1, <2>2 DEF BaseKV, BaseLogits, Cached
<1>3. CASE ~ Resets(h)
  BY <1>1, <1>3 DEF BaseKV, BaseLogits, Cached, KVMatches, History
<1> QED BY <1>2, <1>3

\* After ensureKV the cache holds the history of the handler's conversation.
LEMMA EnsureKVCoherent ==
  ASSUME Coherent, ReplaysSucceed, NEW h \in Handlers, EnsureKV(h)
  PROVE  Coherent'
<1>1. /\ pc[h] = "ensure" /\ pc[h] \in Critical /\ pc[h] \in Holding
      /\ pc' = [pc EXCEPT ![h] = "start"]
      /\ UNCHANGED <<mem, len, inferMu, conv, gen>>
      /\ EnsureKVHit(h) \/ EnsureKVLoad(h)
  BY DEF EnsureKV, EnsureKVHit, EnsureKVLoad, EnsureKVFails, ReplaysSucceed,
         Critical, Holding, convVars, reqVars
<1>2. Bounds /\ TypeOK /\ HandlerCache(h) /\ LastLogitsFresh
  BY DEF Coherent, Bounds
<1>3. conv[h] \in Convs /\ conv[h] # NoConv /\ Len(History(conv[h])) = len[conv[h]] /\ len[conv[h]] \in Nat
  BY <1>1, <1>2, Mine, DistinctAssumption
<1>4. kvConv' = conv'[h] /\ KVMatches' /\ LastLogitsFresh'
  <2>1. CASE EnsureKVHit(h)
    BY <1>1, <1>2, <2>1 DEF EnsureKVHit, convVars, reqVars, HandlerCache, KVMatches,
       LastLogitsFresh, History
  <2>2. CASE EnsureKVLoad(h)
    <3>1. /\ kv' = Entries(History(conv[h]), 0) /\ kvConv' = conv[h] /\ conv' = conv
          /\ lastLogits' = [lastLogits EXCEPT ![conv[h]] =
                              IF len[conv[h]] = 0 THEN NoLogits ELSE kv']
      BY <2>2 DEF EnsureKVLoad, reqVars
    <3>2. LastLogitsFresh'
      BY <1>1, <1>2, <1>3, <3>1 DEF LastLogitsFresh, History, TypeOK
    <3> QED BY <1>1, <1>3, <3>1, <3>2 DEF KVMatches, History
  <2> QED BY <1>1, <2>1, <2>2
<1>5. pc'[h] = "start" /\ \A g \in Handlers \ {h} : pc'[g] = pc[g] /\ gen'[g] = gen[g]
  BY <1>1, <1>2 DEF TypeOK
<1>6. HandlerCache(h)'
  BY <1>1, <1>2, <1>4, <1>5 DEF HandlerCache
<1>7. Bounds' /\ KVCoherent'
  BY <1>1, <1>2, EnsureKVBounds, LockedCoherent
<1> QED BY <1>1, <1>4, <1>5, <1>6, <1>7, OthersCache DEF Coherent

\* A prefill completes the rows of the history to those of the prompt.
LEMMA PrefillCoherent ==
  ASSUME Coherent, NEW h \in Handlers, Prefill(h)
  PROVE  Coherent'
<1> DEFINE c == conv[h]
<1>1. /\ pc[h] = "start" /\ pc[h] \in Critical /\ pc[h] \in Holding
      /\ pc' = [pc EXCEPT ![h] = "decode"]
      /\ kv' = BaseKV(h) \o Entries(NewTokens(h), Cached(h))
      /\ mem' = [mem EXCEPT ![c] = Extend(mem[c], Cached(h), NewTokens(h))]
      /\ len' = [len EXCEPT ![c] = Len(prompt[h])]
      /\ lastLogits' = [lastLogits EXCEPT ![c] = kv']
      /\ logits' = [logits EXCEPT ![h] = kv']
      /\ NewTokens(h) # <<>>
      /\ UNCHANGED <<inferMu, kvConv, conv, prompt, gen>>
  BY DEF Prefill, Starting, Critical, Holding
<1>2. Bounds /\ TypeOK /\ HandlerCache(h) /\ HandlerBounds(h) /\ LastLogitsFresh
  BY DEF Coherent, Bounds
<1>3. Bounds' /\ KVCoherent'
  BY <1>1, <1>2, PrefillBounds, LockedCoherent
<1>4. /\ c \in Convs /\ mem[c] \in Seq(Tokens) /\ len[c] \in Nat
      /\ len[c] <= Len(mem[c]) /\ Len(mem[c]) \in Nat
  BY <1>1, <1>2, Mine
<1>5. /\ Cached(h) \in Nat /\ Cached(h) <= len[c]
      /\ NewTokens(h) \in Seq(Tokens) /\ Len(NewTokens(h)) \in Nat
      /\ Cached(h) + Len(NewTokens(h)) = Len(prompt[h])
      /\ Live(mem[c], Cached(h)) \o NewTokens(h) = prompt[h]
  BY <1>2, <1>4, StartFacts
<1>6. kv' = Entries(prompt[h], 0)
  <2> DEFINE L == Live(mem[c], Cached(h))
             N == NewTokens(h)
  <2>1. L \in Seq(Tokens) /\ Len(L) = Cached(h) /\ N \in Seq(Tokens)
    <3>1. Cached(h) <= Len(mem[c])
      BY <1>4, <1>5
    <3> QED BY <1>4, <1>5, <3>1, LiveType
  <2>2. kv' = Entries(L, 0) \o Entries(N, Cached(h)) /\ L \o N = prompt[h]
    BY <1>1, <1>5, BaseRows
  <2> HIDE DEF L, N
  <2>3. Entries(L \o N, 0) = Entries(L, 0) \o Entries(N, Len(L))
    BY <2>1, EntriesConcat
  <2> QED BY <2>1, <2>2, <2>3
<1>7. pc'[h] = "decode" /\ logits'[h] = kv' /\ \A g \in Handlers \ {h} : pc'[g] = pc[g] /\ gen'[g] = gen[g]
  BY <1>1, <1>2 DEF TypeOK
<1>8. Len(prompt[h]) > 0
  <2>1. Len(NewTokens(h)) # 0
    BY <1>1, <1>5, EmptySeq
  <2> QED BY <1>5, <2>1
<1>9. prompt'[h] \o gen'[h] = prompt[h]
  <2>1. gen[h] = <<>> /\ prompt[h] \in Seq(Tokens)
    BY <1>1, <1>2 DEF HandlerCache, TypeOK
  <2> QED BY <1>1, <2>1, ConcatEmptySeq
<1>10. HandlerCache(h)'
  BY <1>1, <1>2, <1>6, <1>7, <1>8, <1>9 DEF HandlerCache
<1>11. LastLogitsFresh'
  <2> SUFFICES ASSUME NEW d \in Convs, lastLogits'[d] # NoLogits
               PROVE  len'[d] > 0 /\ lastLogits'[d] = Entries(History(d)', 0)
    BY DEF LastLogitsFresh
  <2>1. CASE d = c
    <3>1. Live(mem'[d], len'[d]) = prompt[h]
      BY <1>1, <1>3, <1>7, <2>1 DEF Bounds, HandlerBounds, History
    <3>2. lastLogits'[c] = kv' /\ len'[c] = Len(prompt[h])
      BY <1>1, <1>2, <1>4 DEF TypeOK
    <3> QED BY <1>6, <1>8, <2>1, <3>1, <3>2 DEF History
  <2>2. CASE d # c
    <3>1. lastLogits'[d] = lastLogits[d] /\ len'[d] = len[d] /\ mem'[d] = mem[d]
      BY <1>1, <1>2, <2>2 DEF TypeOK
    <3> QED BY <1>2, <3>1 DEF LastLogitsFresh, History
  <2> QED BY <2>1, <2>2
<1> QED BY <1>1, <1>3, <1>7, <1>10, <1>11, OthersCache DEF Coherent

\* When startGeneration fails, the handler either rolls back next or has left
\* the cache equal to the history.
LEMMA StartFailsCoherent ==
  ASSUME Coherent, NEW h \in Handlers, PrefillFails(h) \/ StartEmptyFails(h)
  PROVE  Coherent'
<1> DEFINE c == conv[h]
<1>1. /\ pc[h] = "start" /\ pc[h] \in Critical /\ pc[h] \in Holding
      /\ len' = [len EXCEPT ![c] = Cached(h)]
      /\ lastLogits' = [lastLogits EXCEPT ![c] = BaseLogits(h)]
      /\ UNCHANGED <<mem, inferMu, kvConv, conv, prompt, gen, logits>>
      /\ \/ pc' = [pc EXCEPT ![h] = "rollback"]
         \/ pc' = [pc EXCEPT ![h] = "reply"] /\ kv' = BaseKV(h)
  BY DEF PrefillFails, StartEmptyFails, Starting, Answer, Critical, Holding
<1>2. Bounds /\ TypeOK /\ HandlerCache(h) /\ LastLogitsFresh
  BY DEF Coherent, Bounds
<1>3. Bounds' /\ KVCoherent'
  BY <1>1, <1>2, StartFailsBounds, LockedCoherent
<1>4. c \in Convs /\ len[c] \in Nat
  BY <1>1, <1>2, Mine
<1>5. /\ BaseKV(h) = Entries(Live(mem[c], Cached(h)), 0)
      /\ Resets(h) => Cached(h) = 0 /\ BaseLogits(h) = NoLogits
      /\ ~ Resets(h) => Cached(h) = len[c] /\ BaseLogits(h) = lastLogits[c]
  BY <1>1, BaseRows
<1>6. /\ pc'[h] = "rollback" \/ (pc'[h] = "reply" /\ kv' = BaseKV(h))
      /\ \A g \in Handlers \ {h} : pc'[g] = pc[g] /\ gen'[g] = gen[g]
  BY <1>1, <1>2 DEF TypeOK
<1>7. /\ len'[c] = Cached(h) /\ lastLogits'[c] = BaseLogits(h)
      /\ \A d \in Convs \ {c} : len'[d] = len[d] /\ lastLogits'[d] = lastLogits[d]
  BY <1>1, <1>2, <1>4 DEF TypeOK
<1>8. pc'[h] = "reply" => KVMatches'
  <2>1. kvConv' = c
    BY <1>1, <1>2 DEF HandlerCache
  <2> QED BY <1>1, <1>5, <1>6, <1>7, <2>1 DEF KVMatches, History
<1>9. LastLogitsFresh'
  <2> SUFFICES ASSUME NEW d \in Convs, lastLogits'[d] # NoLogits
               PROVE  len'[d] > 0 /\ lastLogits'[d] = Entries(History(d)', 0)
    BY DEF LastLogitsFresh
  <2>1. len'[d] = len[d] /\ lastLogits'[d] = lastLogits[d]
    BY <1>5, <1>7
  <2> QED BY <1>1, <1>2, <2>1 DEF LastLogitsFresh, History
<1>10. HandlerCache(h)'
  BY <1>1, <1>2, <1>6, <1>8 DEF HandlerCache
<1> QED BY <1>1, <1>3, <1>6, <1>9, <1>10, OthersCache DEF Coherent

\* The steps of a completion that change neither cache nor history.
LEMMA ReadOnlyCoherent ==
  ASSUME Coherent, NEW h \in Handlers,
         StartRefused(h) \/ EmptyDelta(h) \/ DecodeEnd(h)
  PROVE  Coherent'
<1>1. /\ pc[h] \in {"start", "decode"} /\ pc[h] \in Critical /\ pc[h] \in Holding
      /\ UNCHANGED <<mem, len, lastLogits, kv, inferMu, kvConv, conv, prompt, gen>>
      /\ \/ pc[h] = "start" /\ pc' = [pc EXCEPT ![h] = "reply"]
         \/ /\ pc' = [pc EXCEPT ![h] = "commit"]
            /\ pc[h] = "decode" /\ UNCHANGED logits
         \/ /\ pc' = [pc EXCEPT ![h] = "decode"]
            /\ pc[h] = "start" /\ EmptyDelta(h)
            /\ logits' = [logits EXCEPT ![h] = lastLogits[conv[h]]]
  BY DEF StartRefused, EmptyDelta, DecodeEnd, Starting, Answer, Critical,
         Holding, convVars, reqVars
<1>2. Bounds /\ TypeOK /\ HandlerCache(h) /\ LastLogitsFresh
  BY DEF Coherent, Bounds
<1>3. Bounds' /\ KVCoherent'
  BY <1>1, <1>2, ReadOnlyBounds, LockedCoherent
<1>4. conv[h] \in Convs
  BY <1>1, <1>2, Mine
<1>5. LastLogitsFresh'
  BY <1>1, <1>2 DEF LastLogitsFresh, History
<1>6. /\ \/ pc[h] = "start" /\ pc'[h] = "reply"
         \/ pc'[h] = "commit" /\ pc[h] = "decode" /\ UNCHANGED logits
         \/ /\ pc'[h] = "decode" /\ pc[h] = "start" /\ EmptyDelta(h)
            /\ logits'[h] = lastLogits[conv[h]]
      /\ \A g \in Handlers \ {h} : pc'[g] = pc[g] /\ gen'[g] = gen[g]
  BY <1>1, <1>2 DEF TypeOK
<1>7. EmptyDelta(h) /\ pc[h] = "start" =>
        /\ kv = Entries(prompt[h] \o gen[h], 0)
        /\ lastLogits[conv[h]] = kv
        /\ Len(prompt[h]) > 0
  <2> SUFFICES ASSUME EmptyDelta(h), pc[h] = "start"
               PROVE  /\ kv = Entries(prompt[h] \o gen[h], 0)
                      /\ lastLogits[conv[h]] = kv
                      /\ Len(prompt[h]) > 0
    OBVIOUS
  <2>1. lastLogits[conv[h]] # NoLogits /\ Cached(h) > 0
    BY DEF EmptyDelta
  <2>2. lastLogits[conv[h]] = Entries(History(conv[h]), 0)
    BY <1>2, <1>4, <2>1 DEF LastLogitsFresh
  <2>3. kvConv = conv[h] /\ KVMatches /\ gen[h] = <<>>
    BY <1>2 DEF HandlerCache
  <2>4. kv = Entries(History(conv[h]), 0)
    BY <1>4, <2>3, DistinctAssumption DEF KVMatches
  <2>5. Bounds' /\ pc'[h] = "decode" /\ EmptyDelta(h)
    BY <1>3, <1>6, <1>2 DEF EmptyDelta, TypeOK
  <2>6. History(conv[h]) = prompt[h]
    BY <1>1, <2>5 DEF Bounds, HandlerBounds, History
  <2>7. prompt[h] \o gen[h] = prompt[h]
    BY <1>2, <2>3, ConcatEmptySeq DEF TypeOK
  <2>8. Len(prompt[h]) > 0
    BY <1>2, <1>4, <2>1, StartFacts
  <2> QED BY <2>2, <2>4, <2>6, <2>7, <2>8
<1>8. HandlerCache(h)'
  <2>1. CASE pc[h] = "start" /\ pc'[h] = "reply"
    BY <1>1, <1>2, <2>1 DEF HandlerCache, KVMatches, History
  <2>2. CASE pc'[h] = "commit" /\ pc[h] = "decode" /\ UNCHANGED logits
    BY <1>1, <1>2, <2>2 DEF HandlerCache
  <2>3. CASE /\ pc'[h] = "decode" /\ pc[h] = "start" /\ EmptyDelta(h)
             /\ logits'[h] = lastLogits[conv[h]]
    BY <1>1, <1>2, <1>7, <2>3 DEF HandlerCache
  <2> QED BY <1>6, <2>1, <2>2, <2>3
<1> QED BY <1>1, <1>3, <1>5, <1>6, <1>8, OthersCache DEF Coherent

\* A decode step appends the row of its token, or ends in a rollback.
LEMMA DecodeCoherent ==
  ASSUME Coherent, NEW h \in Handlers, NEW t \in Tokens,
         DecodeToken(h, t) \/ DecodeFails(h, t)
  PROVE  Coherent'
<1>1. /\ pc[h] = "decode" /\ pc[h] \in Critical /\ pc[h] \in Holding
      /\ UNCHANGED <<mem, len, lastLogits, inferMu, kvConv, conv, prompt>>
      /\ gen' = [gen EXCEPT ![h] = Append(gen[h], t)]
      /\ \/ pc' = [pc EXCEPT ![h] = "rollback"]
         \/ /\ pc' = pc \/ pc' = [pc EXCEPT ![h] = "commit"]
            /\ kv' = kv \o Entries(<<t>>, Position(h))
            /\ logits' = [logits EXCEPT ![h] = kv']
  BY DEF DecodeToken, DecodeFails, Critical, Holding, convVars
<1>2. Bounds /\ TypeOK /\ HandlerCache(h) /\ LastLogitsFresh
  BY DEF Coherent, Bounds
<1>3. Bounds' /\ KVCoherent'
  BY <1>1, <1>2, DecodeBounds, LockedCoherent
<1>4. LastLogitsFresh'
  BY <1>1, <1>2 DEF LastLogitsFresh, History
<1>5. /\ \/ pc'[h] = "rollback"
         \/ /\ pc'[h] \in {"decode", "commit"}
            /\ kv' = kv \o Entries(<<t>>, Position(h))
            /\ logits'[h] = kv'
      /\ gen'[h] = Append(gen[h], t)
      /\ \A g \in Handlers \ {h} : pc'[g] = pc[g] /\ gen'[g] = gen[g]
  BY <1>1, <1>2 DEF TypeOK
<1>6. kv \o Entries(<<t>>, Position(h)) = Entries(prompt[h] \o Append(gen[h], t), 0)
  <2> DEFINE p == prompt[h]
             g == gen[h]
             s == p \o g
             u == <<t>>
  <2>1. p \in Seq(Tokens) /\ g \in Seq(Tokens) /\ u \in Seq(Tokens)
    BY <1>2 DEF TypeOK
  <2>2. kv = Entries(p \o g, 0)
    BY <1>1, <1>2 DEF HandlerCache
  <2>3. Append(g, t) = g \o u
    BY <2>1, AppendIsConcat
  <2>4. Position(h) = Len(p \o g)
    BY <2>1, ConcatProperties DEF Position
  <2> HIDE DEF p, g, u
  <2>5. p \o (g \o u) = (p \o g) \o u
    BY <2>1, ConcatAssociative
  <2>6. p \o g \in Seq(Tokens)
    BY <2>1, ConcatProperties
  <2>7. Entries((p \o g) \o u, 0) = Entries(p \o g, 0) \o Entries(u, Len(p \o g))
    BY <2>1, <2>6, EntriesConcat
  <2> QED BY <2>2, <2>3, <2>4, <2>5, <2>7 DEF p, g, u
<1>7. HandlerCache(h)'
  BY <1>1, <1>2, <1>5, <1>6 DEF HandlerCache
<1> QED BY <1>1, <1>3, <1>4, <1>5, <1>7, OthersCache DEF Coherent

\* Commit makes the history catch up with the rows of the generated tokens.
LEMMA CommitCoherent ==
  ASSUME Coherent, NEW h \in Handlers, Commit(h)
  PROVE  Coherent'
<1> DEFINE c == conv[h]
<1>1. /\ pc[h] = "commit" /\ pc[h] \in Critical /\ pc[h] \in Holding
      /\ mem' = [mem EXCEPT ![c] = Extend(mem[c], len[c], gen[h])]
      /\ len' = [len EXCEPT ![c] = len[c] + Len(gen[h])]
      /\ lastLogits' = [lastLogits EXCEPT ![c] = logits[h]]
      /\ pc' = [pc EXCEPT ![h] = "reply"]
      /\ status' = [status EXCEPT ![h] = "ok"]
      /\ UNCHANGED <<kv, inferMu, kvConv, conv, prompt, gen>>
  BY DEF Commit, Answer, Critical, Holding
<1>2. Bounds /\ TypeOK /\ HandlerCache(h) /\ HandlerBounds(h) /\ LastLogitsFresh
  BY DEF Coherent, Bounds
<1>3. Bounds' /\ KVCoherent'
  BY <1>1, <1>2, CommitBounds, LockedCoherent
<1>4. /\ c \in Convs /\ c # NoConv /\ len[c] \in Nat
      /\ Len(History(c)) = len[c] /\ History(c) = prompt[h]
  BY <1>1, <1>2, Mine, DistinctAssumption DEF HandlerBounds
<1>5. /\ pc'[h] = "reply" /\ status'[h] = "ok" /\ lastLogits'[c] = logits[h]
      /\ len'[c] = len[c] + Len(gen[h])
      /\ \A d \in Convs \ {c} :
           mem'[d] = mem[d] /\ len'[d] = len[d] /\ lastLogits'[d] = lastLogits[d]
      /\ \A g \in Handlers \ {h} : pc'[g] = pc[g] /\ gen'[g] = gen[g]
  BY <1>1, <1>2, <1>4 DEF TypeOK
<1>6. Live(mem'[c], len'[c]) = prompt[h] \o gen[h]
  BY <1>1, <1>3, <1>4, <1>5 DEF Bounds, HandlerBounds, History
<1>7. kv = Entries(prompt[h] \o gen[h], 0) /\ logits[h] = kv /\ kvConv = c /\ Len(prompt[h]) > 0
  BY <1>1, <1>2 DEF HandlerCache
<1>8. HandlerCache(h)'
  BY <1>1, <1>5, <1>6, <1>7 DEF HandlerCache, KVMatches, History
<1>9. LastLogitsFresh'
  <2> SUFFICES ASSUME NEW d \in Convs, lastLogits'[d] # NoLogits
               PROVE  len'[d] > 0 /\ lastLogits'[d] = Entries(Live(mem'[d], len'[d]), 0)
    BY DEF LastLogitsFresh, History
  <2>1. CASE d = c
    <3>1. len'[c] > 0
      <4>1. Len(gen[h]) \in Nat
        BY <1>2, LenProperties DEF TypeOK
      <4> QED BY <1>4, <1>5, <1>7, <4>1
    <3> QED BY <1>5, <1>6, <1>7, <2>1, <3>1
  <2>2. CASE d # c
    BY <1>2, <1>5, <2>2 DEF LastLogitsFresh, History
  <2> QED BY <2>1, <2>2
<1> QED BY <1>1, <1>3, <1>5, <1>8, <1>9, OthersCache DEF Coherent

\* A rollback whose replay succeeds leaves cache and history equal.
LEMMA RollbackCoherent ==
  ASSUME Coherent, NEW h \in Handlers, Rollback(h)
  PROVE  Coherent'
<1> DEFINE c == conv[h]
           saved == SubSeq(mem[c], 1, snap[h])
<1>1. /\ pc[h] = "rollback" /\ pc[h] \in Critical /\ pc[h] \in Holding
      /\ pc' = [pc EXCEPT ![h] = "reply"]
      /\ UNCHANGED <<inferMu, kvConv, conv, gen>>
  BY DEF Rollback, Answer, Critical, Holding
<1>2. Bounds /\ TypeOK /\ HandlerCache(h) /\ HandlerBounds(h) /\ LastLogitsFresh
  BY DEF Coherent, Bounds
<1>3. Bounds' /\ KVCoherent'
  BY <1>1, <1>2, RollbackBounds, LockedCoherent
<1>4. /\ c \in Convs /\ mem[c] \in Seq(Tokens)
      /\ snap[h] \in Nat /\ snap[h] <= Len(mem[c])
  BY <1>1, <1>2, Mine DEF HandlerBounds, TypeOK
<1>5. saved \in Seq(Tokens) /\ Len(saved) = snap[h]
  BY <1>4, PrefixRows
<1>6. Live(IF snap[h] = 0 THEN mem[c] ELSE saved, snap[h]) = saved
  <2>1. CASE snap[h] = 0
    BY <2>1 DEF Live
  <2>2. CASE snap[h] # 0
    <3> HIDE DEF saved
    <3>1. SubSeq(saved, 1, Len(saved)) = saved
      BY <1>5, SubSeqFull
    <3> QED BY <1>5, <2>2, <3>1 DEF Live
  <2> QED BY <2>1, <2>2
<1>7. /\ kv' = Entries(saved, 0)
      /\ mem'[c] = IF snap[h] = 0 THEN mem[c] ELSE saved
      /\ len'[c] = snap[h]
      /\ lastLogits'[c] = IF snap[h] = 0 THEN NoLogits ELSE kv'
      /\ \A d \in Convs \ {c} :
           mem'[d] = mem[d] /\ len'[d] = len[d] /\ lastLogits'[d] = lastLogits[d]
      /\ pc'[h] = "reply"
      /\ \A g \in Handlers \ {h} : pc'[g] = pc[g] /\ gen'[g] = gen[g]
  BY <1>1, <1>2, <1>4 DEF Rollback, TypeOK
<1> HIDE DEF saved
<1>8. Live(mem'[c], len'[c]) = saved
  BY <1>6, <1>7
<1>9. HandlerCache(h)'
  <2>1. kvConv' = c
    BY <1>1, <1>2 DEF HandlerCache
  <2> QED BY <1>7, <1>8, <2>1 DEF HandlerCache, KVMatches, History
<1>10. LastLogitsFresh'
  <2> SUFFICES ASSUME NEW d \in Convs, lastLogits'[d] # NoLogits
               PROVE  len'[d] > 0 /\ lastLogits'[d] = Entries(Live(mem'[d], len'[d]), 0)
    BY DEF LastLogitsFresh, History
  <2>1. CASE d = c
    BY <1>4, <1>7, <1>8, <2>1
  <2>2. CASE d # c
    BY <1>2, <1>7, <2>2 DEF LastLogitsFresh, History
  <2> QED BY <2>1, <2>2
<1> QED BY <1>1, <1>3, <1>7, <1>9, <1>10, OthersCache DEF Coherent

\* Embeddings run while kvConv is nil.
LEMMA EmbeddingsCoherent ==
  ASSUME Coherent, NEW h \in Handlers, Embeddings(h)
  PROVE  Coherent'
<1>1. /\ pc[h] \in {"embed", "embedding"} /\ pc[h] \in Critical
      /\ \/ pc' = [pc EXCEPT ![h] = "embedding"]
         \/ pc' = [pc EXCEPT ![h] = "embed"]
         \/ pc' = [pc EXCEPT ![h] = "reply"]
      /\ UNCHANGED <<mem, len, lastLogits, inferMu, kvConv, gen>>
  BY DEF Embeddings, Embed, EmbedReset, EmbedEmpty, Answer, Critical, convVars, reqVars
<1>2. Bounds /\ TypeOK /\ HandlerCache(h) /\ LastLogitsFresh
  BY DEF Coherent, Bounds
<1>3. Bounds' /\ KVCoherent'
  BY <1>1, <1>2, EmbeddingsBounds, LockedCoherent
<1>4. kvConv' = NoConv
  BY <1>1, <1>2 DEF HandlerCache
<1>5. /\ pc'[h] \in {"embed", "embedding", "reply"}
      /\ \A g \in Handlers \ {h} : pc'[g] = pc[g] /\ gen'[g] = gen[g]
  BY <1>1, <1>2 DEF TypeOK
<1>6. HandlerCache(h)'
  BY <1>4, <1>5 DEF HandlerCache, KVMatches
<1>7. LastLogitsFresh'
  BY <1>1, <1>2 DEF LastLogitsFresh, History
<1> QED BY <1>1, <1>3, <1>5, <1>6, <1>7, OthersCache DEF Coherent

\* A handler gives up the lock only when the cache matches kvConv.
LEMMA ReplyCoherent ==
  ASSUME Coherent, NEW h \in Handlers, Reply(h)
  PROVE  Coherent'
<1>1. /\ pc[h] = "reply" /\ pc[h] \in Critical
      /\ pc' = [pc EXCEPT ![h] = "idle"]
      /\ gen' = [gen EXCEPT ![h] = <<>>]
      /\ UNCHANGED <<mem, len, lastLogits, kv, kvConv>>
  BY DEF Reply, convVars, Critical
<1>2. Bounds /\ TypeOK /\ HandlerCache(h) /\ LastLogitsFresh
  BY DEF Coherent, Bounds
<1>3. Bounds'
  BY <1>2, ReplyBounds
<1>4. KVMatches /\ KVCoherent'
  BY <1>1, <1>2 DEF HandlerCache, KVMatches, KVCoherent, History
<1>5. /\ pc'[h] = "idle" /\ gen'[h] = <<>>
      /\ \A g \in Handlers \ {h} : pc'[g] = pc[g] /\ gen'[g] = gen[g]
  BY <1>1, <1>2 DEF TypeOK
<1>6. HandlerCache(h)'
  BY <1>5 DEF HandlerCache
<1>7. LastLogitsFresh'
  BY <1>1, <1>2 DEF LastLogitsFresh, History
<1> QED BY <1>1, <1>3, <1>4, <1>5, <1>6, <1>7, OthersCache DEF Coherent

\* The handler that takes the lock finds the cache as kvConv says.
LEMMA LockCoherent ==
  ASSUME Coherent, NEW h \in Handlers, Lock(h) \/ LockEmbeddings(h)
  PROVE  Coherent'
<1>1. /\ inferMu = Free /\ inferMu' = h
      /\ UNCHANGED <<mem, len, lastLogits, kv, gen>>
      /\ \/ pc[h] = "waiting" /\ pc' = [pc EXCEPT ![h] = "ensure"] /\ kvConv' = kvConv
         \/ pc[h] = "waitingEmbed" /\ pc' = [pc EXCEPT ![h] = "embed"] /\ kvConv' = NoConv
  BY DEF Lock, LockEmbeddings, convVars, reqVars
<1>2. /\ Bounds /\ TypeOK /\ OneForwardInFlight /\ LastLogitsFresh /\ KVCoherent
      /\ \A g \in Handlers : HandlerCache(g)
  BY DEF Coherent, Bounds
<1>3. Bounds'
  BY <1>2, LockBounds
<1>4. KVCoherent' /\ LastLogitsFresh'
  BY <1>1, <1>2, DistinctAssumption DEF KVCoherent, LastLogitsFresh, History
<1>5. KVMatches
  BY <1>1, <1>2 DEF KVCoherent, KVMatches
<1>6. ASSUME NEW g \in Handlers PROVE HandlerCache(g)'
  <2>1. CASE g = h
    <3>1. \/ pc'[h] = "ensure" /\ kvConv' = kvConv /\ pc[h] = "waiting"
          \/ pc'[h] = "embed" /\ kvConv' = NoConv
      BY <1>1, <1>2 DEF TypeOK
    <3>2. gen'[h] = gen[h] /\ HandlerCache(h)
      BY <1>1, <1>2
    <3> QED BY <1>1, <1>5, <2>1, <3>1, <3>2 DEF HandlerCache, KVMatches, History
  <2>2. CASE g # h
    <3>1. pc'[g] = pc[g] /\ pc[g] \notin Critical /\ gen'[g] = gen[g] /\ HandlerCache(g)
      BY <1>1, <1>2, <2>2, DistinctAssumption DEF TypeOK, OneForwardInFlight
    <3> QED BY <3>1 DEF HandlerCache, Critical
  <2> QED BY <2>1, <2>2
<1> QED BY <1>3, <1>4, <1>6 DEF Coherent

\* An arriving request never reuses the conversation kvConv names for another.
LEMMA ArriveCoherent ==
  ASSUME Coherent, NEW h \in Handlers, Arrive(h)
  PROVE  Coherent'
<1>1. /\ Bounds /\ TypeOK /\ OneForwardInFlight /\ LastLogitsFresh /\ KVCoherent
      /\ \A g \in Handlers : HandlerCache(g) /\ HandlerBounds(g)
  BY DEF Coherent, Bounds
<1>2. Bounds'
  BY <1>1, ArriveBounds
<1>3. CASE \E p \in Prompts : AcceptEmbeddings(h, p)
  <2>1. /\ pc[h] = "idle" /\ pc' = [pc EXCEPT ![h] = "waitingEmbed"]
        /\ \A g \in Handlers \ {h} : prompt'[g] = prompt[g]
        /\ UNCHANGED <<mem, len, lastLogits, kv, inferMu, kvConv, conv, gen, logits>>
    BY <1>1, <1>3 DEF AcceptEmbeddings, convVars, TypeOK
  <2>2. KVCoherent' /\ LastLogitsFresh'
    BY <1>1, <2>1 DEF KVCoherent, LastLogitsFresh, History
  <2>3. ASSUME NEW g \in Handlers PROVE HandlerCache(g)'
    <3>1. CASE g = h
      BY <1>1, <2>1, <3>1 DEF HandlerCache, TypeOK
    <3>2. CASE g # h
      <4>1. pc'[g] = pc[g] /\ prompt'[g] = prompt[g] /\ HandlerCache(g)
        BY <1>1, <2>1, <3>2 DEF TypeOK
      <4> QED BY <2>1, <4>1 DEF HandlerCache, KVMatches, History
    <3> QED BY <3>1, <3>2
  <2> QED BY <1>2, <2>2, <2>3 DEF Coherent
<1>4. CASE \E p \in Prompts, s \in SessionIDs : Accept(h, s, p)
  <2>1. PICK p \in Prompts, s \in SessionIDs : Accept(h, s, p)
    BY <1>4
  <2>2. /\ pc[h] = "idle" /\ ConversationForSession(h, s)
        /\ pc' = [pc EXCEPT ![h] = "waiting"]
        /\ \A g \in Handlers \ {h} : prompt'[g] = prompt[g]
        /\ UNCHANGED <<kv, inferMu, kvConv, gen, logits>>
    BY <1>1, <2>1 DEF Accept, TypeOK
  <2>3. conv[h] = NoConv
    BY <1>1, <2>2 DEF HandlerBounds
  <2>4. /\ \A g \in Handlers \ {h} : conv'[g] = conv[g]
        /\ \A c \in Convs : \/ mem'[c] = mem[c] /\ len'[c] = len[c] /\ lastLogits'[c] = lastLogits[c]
                            \/ Unreferenced(c) /\ lastLogits'[c] = NoLogits
    BY <1>1, <2>2, <2>3, SessionFacts
  <2>5. kvConv # NoConv => mem'[kvConv] = mem[kvConv] /\ len'[kvConv] = len[kvConv]
    BY <1>1, <2>4 DEF TypeOK, Unreferenced
  <2>6. KVCoherent'
    BY <1>1, <2>2, <2>5 DEF KVCoherent, History
  <2>7. LastLogitsFresh'
    BY <1>1, <2>4 DEF LastLogitsFresh, History
  <2>8. ASSUME NEW g \in Handlers PROVE HandlerCache(g)'
    <3>1. CASE g = h
      BY <1>1, <2>2, <3>1 DEF HandlerCache, TypeOK
    <3>2. CASE g # h
      <4>1. pc'[g] = pc[g] /\ prompt'[g] = prompt[g] /\ conv'[g] = conv[g] /\ HandlerCache(g)
        BY <1>1, <2>2, <2>4, <3>2 DEF TypeOK
      <4>2. KVMatches => KVMatches'
        BY <2>2, <2>5 DEF KVMatches, History
      <4> QED BY <2>2, <4>1, <4>2 DEF HandlerCache
    <3> QED BY <3>1, <3>2
  <2> QED BY <1>2, <2>6, <2>7, <2>8 DEF Coherent
<1> QED BY <1>3, <1>4 DEF Arrive

\* Coherent is inductive when replays succeed.
LEMMA NextCoherent == ReplaysSucceed /\ Coherent /\ [Next]_vars => Coherent'
<1> SUFFICES ASSUME ReplaysSucceed, Coherent, [Next]_vars PROVE Coherent'
  OBVIOUS
<1>1. CASE UNCHANGED vars
  <2>1. Bounds'
    BY <1>1, NextBounds DEF Coherent
  <2> QED BY <1>1, <2>1 DEF vars, Coherent, KVCoherent, LastLogitsFresh,
             HandlerCache, KVMatches, History
<1>2. CASE Next
  <2>1. PICK h \in Handlers : Arrive(h) \/ Lock(h) \/ LockEmbeddings(h) \/ Work(h)
    BY <1>2 DEF Next
  <2>2. CASE Work(h)
    <3>1. CASE EnsureKV(h)
      BY <3>1, EnsureKVCoherent
    <3>2. CASE StartGeneration(h)
      BY <3>2, PrefillCoherent, StartFailsCoherent, ReadOnlyCoherent DEF StartGeneration
    <3>3. CASE GenerateSteps(h)
      BY <3>3, DecodeCoherent, ReadOnlyCoherent DEF GenerateSteps
    <3>4. CASE Commit(h) \/ Rollback(h)
      BY <3>4, CommitCoherent, RollbackCoherent
    <3>5. CASE RollbackFails(h)
      BY <3>5 DEF RollbackFails, ReplaysSucceed
    <3>6. CASE Embeddings(h) \/ Reply(h)
      BY <3>6, EmbeddingsCoherent, ReplyCoherent
    <3> QED BY <2>2, <3>1, <3>2, <3>3, <3>4, <3>5, <3>6 DEF Work
  <2> QED BY <2>1, <2>2, ArriveCoherent, LockCoherent
<1> QED BY <1>1, <1>2

\* If no replay fails, then at every step kvConv is right about the cache, each
\* request samples from its own context, and cached logits are never stale.
THEOREM CoherentInvariant == ReplaysSucceed /\ Spec => []Coherent
<1>1. SUFFICES ASSUME ReplaysSucceed PROVE Spec => []Coherent
  OBVIOUS
<1>2. Coherent /\ [Next]_vars => Coherent'
  BY <1>1, NextCoherent
<1> QED BY <1>2, InitCoherent, PTL DEF Spec

\* If no replay fails, kvConv always tells the truth about the model's cache.
THEOREM KVCoherentHolds == ReplaysSucceed /\ Spec => []KVCoherent
<1>1. Coherent => KVCoherent
  BY DEF Coherent
<1> QED BY <1>1, CoherentInvariant, PTL

\* If no replay fails, a token is only ever sampled from its own request's
\* context, however requests of other sessions interleave.
THEOREM DecodeOwnContextHolds == ReplaysSucceed /\ Spec => []DecodeOwnContext
<1>1. Coherent => DecodeOwnContext
  BY DEF Coherent, HandlerCache, DecodeOwnContext
<1> QED BY <1>1, CoherentInvariant, PTL

\* If no replay fails, the logits kept for an empty delta are never stale.
THEOREM LastLogitsFreshHolds == ReplaysSucceed /\ Spec => []LastLogitsFresh
<1>1. Coherent => LastLogitsFresh
  BY DEF Coherent
<1> QED BY <1>1, CoherentInvariant, PTL

-----------------------------------------------------------------------------
(* The refinement: what the service sees of a handler.                        *)

\* What the service sees of a handler.
Asked(h) == IF Phase(h) = "idle" THEN <<>> ELSE prompt[h]
Answered(h) == IF Phase(h) \in {"sampling", "served"} THEN gen[h] ELSE <<>>
Context(h) == IF Phase(h) = "sampling" THEN logits[h] ELSE NoLogits

\* A step that leaves alone what the phase of a handler depends on, and what is seen.
Undisturbed(g) ==
  /\ pc'[g] = pc[g] /\ conv'[g] = conv[g] /\ status'[g] = status[g]
  /\ prompt'[g] = prompt[g] /\ gen'[g] = gen[g] /\ logits'[g] = logits[g]

SameView(g) ==
  /\ Phase(g)' = Phase(g) /\ Asked(g)' = Asked(g)
  /\ Answered(g)' = Answered(g) /\ Context(g)' = Context(g)

\* A handler whose variables stay is seen as before.
LEMMA UndisturbedView ==
  ASSUME NEW g \in Handlers, Undisturbed(g) PROVE SameView(g)
<1>1. Phase(g)' = Phase(g)
  BY DEF Undisturbed, Phase
<1> QED BY <1>1 DEF Undisturbed, SameView, Asked, Answered, Context

-----------------------------------------------------------------------------
(* The steps of the service, as seen by one handler. *)

\* When all handlers are seen as before the service stutters.
LEMMA ToStutter ==
  ASSUME \A g \in Handlers : SameView(g)
  PROVE  UNCHANGED Service!vars
  BY DEF SameView, Service!vars, Asked, Answered, Context

\* A handler accepts a prompt.
LEMMA ToSubmit ==
  ASSUME NEW h \in Handlers, NEW p \in Prompts, \A g \in Handlers \ {h} : SameView(g),
         Phase(h) = "idle", Phase(h)' = "queued", prompt'[h] = p
  PROVE  Service!Next
<1>1. Service!Submit(h, p)
  BY DEF SameView, Service!Submit, Asked, Answered, Context
<1> QED BY <1>1 DEF Service!Next

\* A handler begins to sample, alone.
LEMMA ToBegin ==
  ASSUME NEW h \in Handlers, \A g \in Handlers \ {h} : SameView(g),
         Phase(h) = "queued", prompt[h] # <<>>, \A g \in Handlers : Phase(g) # "sampling",
         Phase(h)' = "sampling", prompt'[h] = prompt[h], gen'[h] = <<>>,
         logits'[h] = Entries(prompt[h], 0)
  PROVE  Service!Next
<1>1. Service!Begin(h)
  BY DEF SameView, Service!Begin, Service!Entries, Entries, Asked, Answered, Context
<1> QED BY <1>1 DEF Service!Next

\* It samples a token.
LEMMA ToEmit ==
  ASSUME NEW h \in Handlers, NEW t \in Tokens, \A g \in Handlers \ {h} : SameView(g),
         Phase(h) = "sampling", Len(gen[h]) < MaxTokens,
         Phase(h)' = "sampling", prompt'[h] = prompt[h], gen'[h] = Append(gen[h], t),
         logits'[h] = Entries(prompt[h] \o gen'[h], 0)
  PROVE  Service!Next
<1>1. Service!Emit(h, t)
  BY DEF SameView, Service!Emit, Service!Entries, Entries, Asked, Answered, Context
<1> QED BY <1>1 DEF Service!Next

\* It has served its request.
LEMMA ToServe ==
  ASSUME NEW h \in Handlers, \A g \in Handlers \ {h} : SameView(g),
         Phase(h) = "sampling", Phase(h)' = "served", prompt'[h] = prompt[h], gen'[h] = gen[h]
  PROVE  Service!Next
<1>1. Service!Serve(h)
  BY DEF SameView, Service!Serve, Asked, Answered, Context
<1> QED BY <1>1 DEF Service!Next

\* It has failed.
LEMMA ToFail ==
  ASSUME NEW h \in Handlers, \A g \in Handlers \ {h} : SameView(g),
         Phase(h) \in {"queued", "sampling"}, Phase(h)' = "failed", prompt'[h] = prompt[h]
  PROVE  Service!Next
<1>1. Service!Fail(h)
  BY DEF SameView, Service!Fail, Asked, Answered, Context
<1> QED BY <1>1 DEF Service!Next

\* It has answered.
LEMMA ToDone ==
  ASSUME NEW h \in Handlers, \A g \in Handlers \ {h} : SameView(g),
         Phase(h) \in {"served", "failed"}, Phase(h)' = "idle"
  PROVE  Service!Next
<1>1. Service!Done(h)
  BY DEF SameView, Service!Done, Asked, Answered, Context
<1> QED BY <1>1 DEF Service!Next

\* The phase of a handler, place by place.
LEMMA Phases ==
  ASSUME NEW h \in Handlers
  PROVE  /\ pc[h] \in {"waiting", "ensure", "start"} => Phase(h) = "queued"
         /\ pc[h] \in {"decode", "commit"} => Phase(h) = "sampling"
         /\ pc[h] = "rollback" => Phase(h) = "failed"
         /\ pc[h] \in {"idle", "waitingEmbed", "embed", "embedding"} => Phase(h) = "idle"
         /\ pc[h] = "reply" /\ conv[h] = NoConv => Phase(h) = "idle"
         /\ pc[h] = "reply" /\ conv[h] # NoConv /\ status[h] = "ok" => Phase(h) = "served"
         /\ pc[h] = "reply" /\ conv[h] # NoConv /\ status[h] = "error" => Phase(h) = "failed"
         /\ pc[h] = "reply" /\ status[h] = "none" => Phase(h) = "idle"
  BY DEF Phase

\* The same after a step.
LEMMA PhasesNext ==
  ASSUME NEW h \in Handlers
  PROVE  /\ pc'[h] \in {"waiting", "ensure", "start"} => Phase(h)' = "queued"
         /\ pc'[h] \in {"decode", "commit"} => Phase(h)' = "sampling"
         /\ pc'[h] = "rollback" => Phase(h)' = "failed"
         /\ pc'[h] \in {"idle", "waitingEmbed", "embed", "embedding"} => Phase(h)' = "idle"
         /\ pc'[h] = "reply" /\ conv'[h] = NoConv => Phase(h)' = "idle"
         /\ pc'[h] = "reply" /\ conv'[h] # NoConv /\ status'[h] = "ok" => Phase(h)' = "served"
         /\ pc'[h] = "reply" /\ conv'[h] # NoConv /\ status'[h] = "error" => Phase(h)' = "failed"
         /\ pc'[h] = "reply" /\ status'[h] = "none" => Phase(h)' = "idle"
  BY DEF Phase

\* A step of a handler that is not seen.
LEMMA Unseen ==
  ASSUME NEW h \in Handlers, \A g \in Handlers \ {h} : Undisturbed(g),
         Phase(h)' = Phase(h),
         prompt'[h] = prompt[h] \/ Phase(h) = "idle",
         Phase(h) \in {"sampling", "served"} => gen'[h] = gen[h],
         Phase(h) = "sampling" => logits'[h] = logits[h]
  PROVE  UNCHANGED Service!vars
<1>1. SameView(h)
  BY DEF SameView, Asked, Answered, Context
<1> QED BY <1>1, UndisturbedView, ToStutter

-----------------------------------------------------------------------------
(* Every step of the server. *)

\* The decode loop ends at MaxTokens.
Emitting == \A h \in Handlers : pc[h] = "decode" => Len(gen[h]) < MaxTokens

\* The invariant under which steps are mapped.
Mapped == Coherent /\ Emitting

Simulated == (Service!Next \/ UNCHANGED Service!vars) /\ Emitting'

\* The others are not sampling, and stay within the bound.
LEMMA OthersQuiet ==
  ASSUME Mapped, NEW h \in Handlers, \A g \in Handlers \ {h} : Undisturbed(g),
         pc'[h] = "decode" => Len(gen'[h]) < MaxTokens
  PROVE  Emitting'
  BY DEF Mapped, Emitting, Undisturbed

\* While a handler starts no other one samples.
LEMMA OnlyOneSamples ==
  ASSUME Mapped, NEW h \in Handlers, pc[h] = "start"
  PROVE  \A g \in Handlers : Phase(g) # "sampling"
<1> SUFFICES ASSUME NEW g \in Handlers PROVE Phase(g) # "sampling"
  OBVIOUS
<1>1. pc[h] \in Critical /\ TypeOK /\ OneForwardInFlight
  BY DEF Critical, Mapped, Coherent, Bounds
<1>2. g # h => pc[g] \notin Critical
  BY <1>1 DEF OneForwardInFlight
<1>3. pc[g] \notin {"decode", "commit"} /\ pc[g] \in PCs
  BY <1>1, <1>2 DEF Critical, TypeOK
<1>4. pc[g] \in {"decode", "commit"} \/ Phase(g) # "sampling"
  BY DEF Phase
<1> QED BY <1>3, <1>4

\* Accepting a request submits it.
LEMMA ArriveSimulated == ASSUME Mapped, NEW h \in Handlers, Arrive(h) PROVE Simulated
<1>0. TypeOK
  BY DEF Mapped, Coherent, Bounds
<1>1. PICK p \in Prompts : AcceptEmbeddings(h, p) \/ \E s \in SessionIDs : Accept(h, s, p)
  BY DEF Arrive
<1>2. CASE AcceptEmbeddings(h, p)
  <2>1. /\ pc[h] = "idle" /\ pc'[h] = "waitingEmbed"
        /\ \A g \in Handlers \ {h} : Undisturbed(g)
    BY <1>0, <1>2 DEF AcceptEmbeddings, TypeOK, Undisturbed
  <2>2. Phase(h) = "idle" /\ Phase(h)' = "idle"
    BY <2>1, Phases, PhasesNext
  <2> QED BY <2>1, <2>2, Unseen, OthersQuiet DEF Simulated
<1>3. ASSUME NEW s \in SessionIDs, Accept(h, s, p) PROVE Simulated
  <2>1. \A g \in Handlers \ {h} : conv'[g] = conv[g]
    BY <1>0, <1>3 DEF Accept, ConversationForSession, NewConversation, TypeOK
  <2>2. /\ pc[h] = "idle" /\ pc'[h] = "waiting" /\ prompt'[h] = p
        /\ \A g \in Handlers \ {h} : Undisturbed(g)
    BY <1>0, <1>3, <2>1 DEF Accept, TypeOK, Undisturbed
  <2>3. Phase(h) = "idle" /\ Phase(h)' = "queued"
    BY <2>2, Phases, PhasesNext
  <2>4. Service!Next
    BY <2>2, <2>3, ToSubmit, UndisturbedView
  <2> QED BY <2>2, <2>4, OthersQuiet DEF Simulated
<1> QED BY <1>1, <1>2, <1>3

\* Taking the lock is not seen.
LEMMA LockSimulated == ASSUME Mapped, NEW h \in Handlers, Lock(h) \/ LockEmbeddings(h) PROVE Simulated
<1>0. TypeOK
  BY DEF Mapped, Coherent, Bounds
<1>1. /\ (pc[h] = "waiting" /\ pc'[h] = "ensure") \/ (pc[h] = "waitingEmbed" /\ pc'[h] = "embed")
      /\ UNCHANGED reqVars
      /\ \A g \in Handlers \ {h} : pc'[g] = pc[g]
  BY <1>0 DEF Lock, LockEmbeddings, TypeOK
<1>2. \A g \in Handlers \ {h} : Undisturbed(g)
  BY <1>1 DEF reqVars, Undisturbed
<1>3. Phase(h)' = Phase(h) /\ Phase(h) \in {"queued", "idle"} /\ prompt'[h] = prompt[h]
  BY <1>1, Phases, PhasesNext DEF reqVars
<1> QED BY <1>1, <1>2, <1>3, Unseen, OthersQuiet DEF Simulated

\* Nor is bringing the cache to the conversation; when that fails the request does.
LEMMA EnsureSimulated ==
  ASSUME Mapped, ReplaysSucceed, NEW h \in Handlers, EnsureKV(h) PROVE Simulated
<1>0. TypeOK
  BY DEF Mapped, Coherent, Bounds
<1>1. /\ pc[h] = "ensure" /\ pc'[h] = "start" /\ UNCHANGED reqVars
      /\ \A g \in Handlers \ {h} : pc'[g] = pc[g]
  BY <1>0 DEF EnsureKV, EnsureKVHit, EnsureKVLoad, EnsureKVFails, ReplaysSucceed, TypeOK
<1>2. \A g \in Handlers \ {h} : Undisturbed(g)
  BY <1>1 DEF reqVars, Undisturbed
<1>3. Phase(h)' = "queued" /\ Phase(h) = "queued" /\ prompt'[h] = prompt[h]
  BY <1>1, Phases, PhasesNext DEF reqVars
<1> QED BY <1>1, <1>2, <1>3, Unseen, OthersQuiet DEF Simulated

\* startGeneration begins the sampling, from the rows of the whole prompt.
LEMMA BeginSimulated ==
  ASSUME Mapped, Coherent', NEW h \in Handlers, Prefill(h) \/ EmptyDelta(h) PROVE Simulated
<1>0. TypeOK /\ MaxTokens \in Nat \ {0}
  BY LimitsAssumption DEF Mapped, Coherent, Bounds
<1>1. /\ pc[h] = "start" /\ pc'[h] = "decode" /\ UNCHANGED <<conv, prompt, gen, status>>
      /\ \A g \in Handlers \ {h} : pc'[g] = pc[g] /\ logits'[g] = logits[g]
  BY <1>0 DEF Prefill, EmptyDelta, Starting, TypeOK
<1>2. \A g \in Handlers \ {h} : Undisturbed(g)
  BY <1>1 DEF Undisturbed
<1>3. gen[h] = <<>> /\ gen'[h] = <<>> /\ prompt[h] \in Seq(Tokens)
  BY <1>0, <1>1 DEF Mapped, Coherent, HandlerCache, TypeOK
<1>4. /\ logits'[h] = Entries(prompt'[h] \o gen'[h], 0)
      /\ Len(prompt'[h]) > 0
  BY <1>1 DEF Coherent, HandlerCache
<1>5. logits'[h] = Entries(prompt[h], 0) /\ prompt[h] # <<>>
  <2>1. prompt'[h] \o gen'[h] = prompt[h]
    BY <1>1, <1>3, ConcatEmptySeq
  <2>2. prompt[h] # <<>>
    BY <1>1, <1>4, EmptySeq
  <2> QED BY <2>1, <2>2, <1>4
<1>6. Phase(h) = "queued" /\ Phase(h)' = "sampling"
  BY <1>1, Phases, PhasesNext
<1>7. Service!Next
  BY <1>1, <1>2, <1>3, <1>5, <1>6, ToBegin, OnlyOneSamples, UndisturbedView
<1>8. Len(gen'[h]) < MaxTokens
  BY <1>0, <1>3, EmptySeq
<1> QED BY <1>2, <1>7, <1>8, OthersQuiet DEF Simulated

\* Whatever fails becomes one failure of the service.
LEMMA FailSimulated ==
  ASSUME Mapped, NEW h \in Handlers,
         StartRefused(h) \/ PrefillFails(h) \/ StartEmptyFails(h) \/ \E t \in Tokens : DecodeFails(h, t)
  PROVE  Simulated
<1>0. TypeOK /\ HandlerBounds(h)
  BY DEF Mapped, Coherent, Bounds
<1>1. /\ pc[h] \in {"start", "decode"}
      /\ pc'[h] = "rollback" \/ (pc'[h] = "reply" /\ status'[h] = "error")
      /\ conv' = conv /\ prompt' = prompt
      /\ \A g \in Handlers \ {h} : Undisturbed(g)
  <2>1. CASE StartRefused(h)
    BY <1>0, <2>1 DEF StartRefused, Answer, TypeOK, Undisturbed
  <2>2. CASE PrefillFails(h)
    BY <1>0, <2>2 DEF PrefillFails, Starting, TypeOK, Undisturbed
  <2>3. CASE StartEmptyFails(h)
    BY <1>0, <2>3 DEF StartEmptyFails, Starting, Answer, TypeOK, Undisturbed
  <2>4. ASSUME NEW t \in Tokens, DecodeFails(h, t)
        PROVE  /\ pc[h] = "decode" /\ pc'[h] = "rollback" /\ conv' = conv /\ prompt' = prompt
               /\ \A g \in Handlers \ {h} : Undisturbed(g)
    BY <1>0, <2>4 DEF DecodeFails, TypeOK, Undisturbed
  <2> QED BY <2>1, <2>2, <2>3, <2>4
<1>2. conv[h] # NoConv
  BY <1>0, <1>1 DEF HandlerBounds, Holding
<1>3. Phase(h) \in {"queued", "sampling"} /\ Phase(h)' = "failed"
  BY <1>1, <1>2, Phases, PhasesNext
<1>4. Service!Next
  BY <1>1, <1>3, ToFail, UndisturbedView
<1> QED BY <1>1, <1>4, OthersQuiet DEF Simulated

\* A token emitted, or the end of the answer.
LEMMA DecodeSimulated ==
  ASSUME Mapped, Coherent', NEW h \in Handlers, DecodeEnd(h) \/ \E t \in Tokens : DecodeToken(h, t)
  PROVE  Simulated
<1>0. TypeOK
  BY DEF Mapped, Coherent, Bounds
<1>1. CASE DecodeEnd(h)
  <2>1. /\ pc[h] = "decode" /\ pc'[h] = "commit" /\ UNCHANGED reqVars
        /\ \A g \in Handlers \ {h} : pc'[g] = pc[g]
    BY <1>0, <1>1 DEF DecodeEnd, TypeOK
  <2>2. \A g \in Handlers \ {h} : Undisturbed(g)
    BY <2>1 DEF reqVars, Undisturbed
  <2>3. Phase(h)' = "sampling" /\ Phase(h) = "sampling"
    BY <2>1, Phases, PhasesNext
  <2>4. prompt'[h] = prompt[h] /\ gen'[h] = gen[h] /\ logits'[h] = logits[h]
    BY <2>1 DEF reqVars
  <2> QED BY <2>1, <2>2, <2>3, <2>4, Unseen, OthersQuiet DEF Simulated
<1>2. ASSUME NEW t \in Tokens, DecodeToken(h, t) PROVE Simulated
  <2>1. /\ pc[h] = "decode" /\ pc'[h] \in {"decode", "commit"} /\ UNCHANGED <<conv, prompt, status>>
        /\ gen'[h] = Append(gen[h], t)
        /\ pc'[h] = "decode" => Len(gen'[h]) < MaxTokens
        /\ \A g \in Handlers \ {h} : Undisturbed(g)
    BY <1>0, <1>2 DEF DecodeToken, TypeOK, Undisturbed
  <2>2. logits'[h] = Entries(prompt[h] \o gen'[h], 0)
    BY <2>1 DEF Coherent, HandlerCache
  <2>3. Phase(h)' = "sampling" /\ Phase(h) = "sampling"
    BY <2>1, Phases, PhasesNext
  <2>4. Len(gen[h]) < MaxTokens
    BY <2>1 DEF Mapped, Emitting
  <2>5. Service!Next
    BY <2>1, <2>2, <2>3, <2>4, ToEmit, UndisturbedView
  <2> QED BY <2>1, <2>5, OthersQuiet DEF Simulated
<1> QED BY <1>1, <1>2

\* The answer enters the history: the request is served.
LEMMA CommitSimulated == ASSUME Mapped, NEW h \in Handlers, Commit(h) PROVE Simulated
<1>0. TypeOK /\ HandlerBounds(h)
  BY DEF Mapped, Coherent, Bounds
<1>1. /\ pc[h] = "commit" /\ pc'[h] = "reply" /\ status'[h] = "ok"
      /\ conv' = conv /\ prompt' = prompt /\ gen' = gen
      /\ \A g \in Handlers \ {h} : Undisturbed(g)
  BY <1>0 DEF Commit, Answer, TypeOK, Undisturbed
<1>2. conv[h] # NoConv
  BY <1>0, <1>1 DEF HandlerBounds, Holding
<1>3. Phase(h) = "sampling" /\ Phase(h)' = "served"
  BY <1>1, <1>2, Phases, PhasesNext
<1>4. Service!Next
  BY <1>1, <1>3, ToServe, UndisturbedView
<1> QED BY <1>1, <1>4, OthersQuiet DEF Simulated

\* The prompt leaves the history: the request has failed.
LEMMA RollbackSimulated == ASSUME Mapped, NEW h \in Handlers, Rollback(h) PROVE Simulated
<1>0. TypeOK /\ HandlerBounds(h)
  BY DEF Mapped, Coherent, Bounds
<1>1. /\ pc[h] = "rollback" /\ pc'[h] = "reply" /\ status'[h] = "error"
      /\ conv' = conv /\ prompt' = prompt
      /\ \A g \in Handlers \ {h} : Undisturbed(g)
  BY <1>0 DEF Rollback, Answer, TypeOK, Undisturbed
<1>2. conv[h] # NoConv
  BY <1>0, <1>1 DEF HandlerBounds, Holding
<1>3. Phase(h) = "failed" /\ Phase(h)' = "failed"
  BY <1>1, <1>2, Phases, PhasesNext
<1> QED BY <1>1, <1>3, Unseen, OthersQuiet DEF Simulated

\* An embeddings request is none of the service's.
LEMMA EmbeddingsSimulated == ASSUME Mapped, NEW h \in Handlers, Embeddings(h) PROVE Simulated
<1>0. TypeOK /\ HandlerBounds(h)
  BY DEF Mapped, Coherent, Bounds
<1>1. /\ pc[h] \in {"embed", "embedding"} /\ pc'[h] \in {"embed", "embedding", "reply"}
      /\ conv' = conv
      /\ \A g \in Handlers \ {h} : Undisturbed(g)
  <2>1. CASE Embed(h)
    BY <1>0, <2>1 DEF Embed, TypeOK, Undisturbed
  <2>2. CASE EmbedReset(h)
    BY <1>0, <2>2 DEF EmbedReset, reqVars, TypeOK, Undisturbed
  <2>3. CASE EmbedEmpty(h)
    BY <1>0, <2>3 DEF EmbedEmpty, Answer, TypeOK, Undisturbed
  <2> QED BY <2>1, <2>2, <2>3 DEF Embeddings
<1>2. conv[h] = NoConv
  BY <1>0, <1>1 DEF HandlerBounds
<1>3. Phase(h) = "idle" /\ Phase(h)' = "idle"
  BY <1>1, <1>2, Phases, PhasesNext
<1> QED BY <1>1, <1>3, Unseen, OthersQuiet DEF Simulated

\* The reply is sent.
LEMMA ReplySimulated == ASSUME Mapped, NEW h \in Handlers, Reply(h) PROVE Simulated
<1>0. TypeOK
  BY DEF Mapped, Coherent, Bounds
<1>1. /\ pc[h] = "reply" /\ pc'[h] = "idle"
      /\ \A g \in Handlers \ {h} : Undisturbed(g)
  BY <1>0 DEF Reply, TypeOK, Undisturbed
<1>2. Phase(h)' = "idle"
  BY <1>1, PhasesNext
<1>3. Phase(h) \in {"idle", "served", "failed"}
  BY <1>0, <1>1, Phases DEF TypeOK
<1>4. CASE Phase(h) = "idle"
  BY <1>1, <1>2, <1>4, Unseen, OthersQuiet DEF Simulated
<1>5. CASE Phase(h) \in {"served", "failed"}
  <2>1. Service!Next
    BY <1>1, <1>2, <1>5, ToDone, UndisturbedView
  <2> QED BY <1>1, <2>1, OthersQuiet DEF Simulated
<1> QED BY <1>3, <1>4, <1>5

\* Every step of the server is a step of the service, or a stutter.
LEMMA StepSimulated ==
  ASSUME Mapped, Coherent', ReplaysSucceed, [Next]_vars PROVE Simulated
<1>1. CASE UNCHANGED vars
  <2>1. \A g \in Handlers : Undisturbed(g)
    BY <1>1 DEF vars, Undisturbed
  <2>2. UNCHANGED Service!vars
    BY <2>1, UndisturbedView, ToStutter
  <2>3. Emitting'
    BY <1>1 DEF vars, Mapped, Emitting
  <2> QED BY <2>2, <2>3 DEF Simulated
<1>2. ASSUME NEW h \in Handlers, Arrive(h) \/ Lock(h) \/ LockEmbeddings(h) PROVE Simulated
  BY <1>2, ArriveSimulated, LockSimulated
<1>3. ASSUME NEW h \in Handlers, Work(h) PROVE Simulated
  <2>1. CASE EnsureKV(h)
    BY <2>1, EnsureSimulated
  <2>2. CASE StartGeneration(h)
    BY <2>2, BeginSimulated, FailSimulated DEF StartGeneration
  <2>3. CASE GenerateSteps(h)
    BY <2>3, DecodeSimulated, FailSimulated DEF GenerateSteps
  <2>4. CASE Commit(h) \/ Rollback(h)
    BY <2>4, CommitSimulated, RollbackSimulated
  <2>5. CASE RollbackFails(h)
    BY <2>5 DEF RollbackFails, ReplaysSucceed
  <2>6. CASE Embeddings(h) \/ Reply(h)
    BY <2>6, EmbeddingsSimulated, ReplySimulated
  <2> QED BY <1>3, <2>1, <2>2, <2>3, <2>4, <2>5, <2>6 DEF Work
<1> QED BY <1>1, <1>2, <1>3 DEF Next

\* The server begins as the service does.
LEMMA InitMapped == Init => Service!Init /\ Emitting
<1> SUFFICES ASSUME Init PROVE Service!Init /\ Emitting
  OBVIOUS
<1>1. \A h \in Handlers : pc[h] = "idle" /\ Phase(h) = "idle"
  BY Phases DEF Init
<1>2. Service!Init
  BY <1>1 DEF Service!Init
<1> QED BY <1>1, <1>2 DEF Emitting

\* If no replay fails, the server with its shared cache, its sessions and its
\* embeddings is a service in which every token is sampled from the rows of its own
\* prompt and answer, one request at a time.
THEOREM ServiceImplemented == ReplaysSucceed /\ Spec => ImplementsService
<1>1. SUFFICES ASSUME ReplaysSucceed PROVE Spec => ImplementsService
  OBVIOUS
<1>2. Spec => []Coherent
  BY <1>1, CoherentInvariant, PTL
<1>3. Init => Service!Init /\ Emitting
  BY InitMapped
<1>4. Coherent /\ Coherent' /\ Emitting /\ [Next]_vars => [Service!Next]_(Service!vars) /\ Emitting'
  BY <1>1, StepSimulated DEF Mapped, Simulated
<1> QED BY <1>2, <1>3, <1>4, PTL DEF Spec, ImplementsService, Service!Spec
=============================================================================
