------------------------- MODULE RateLimiterProofs -------------------------
(***************************************************************************)
(* Proofs about RateLimiter, for any number of clients and requests, any    *)
(* rate and any delays: no window of time admits more than the burst and    *)
(* what it refills, and sweeping idle buckets changes no answer.            *)
(***************************************************************************)
EXTENDS RateLimiter, FiniteSetTheorems, SequenceTheorems, TLAPS

Bucket == [tokens : Int, last : Nat, lastSeen : Nat]
Pending == [req : Requests, client : Clients, stamp : Nat]
Decision == [client : Clients, stamp : Nat, ok : BOOLEAN]

Typed ==
  /\ now \in Nat /\ now <= MaxTime
  /\ clients \in [Clients -> {NoBucket} \cup Bucket]
  /\ lastSweep \in Nat
  /\ pending \subseteq Pending
  /\ log \in Seq(Decision)

\* A request that waits read the clock at most MaxLag ago.
Recent == \A p \in pending : p.stamp <= now /\ now - p.stamp <= MaxLag

\* A bucket owes at most what a late request took back: requests that overtook each
\* other leave it below zero by no more than the time one of them waited.
Solvent(b) ==
  /\ b.last = b.lastSeen
  /\ b.tokens + (now - b.last) * PerMinute >= 0
  /\ b.tokens + MaxLag * PerMinute >= 0
BucketsSolvent == \A c \in Clients : clients[c] # NoBucket => Solvent(clients[c])

\* What the bucket b has let pass since from, and what it still holds, was in the burst
\* or came in since; without a bucket it came in before any request that can still be
\* decided.
Covered(b, admitted, from) ==
  IF b = NoBucket
  THEN \A s \in Nat : s >= now - MaxLag => admitted * Token <= (s - from) * PerMinute
  ELSE admitted * Token + b.tokens <= Burst + (b.last - from) * PerMinute

WindowsCovered ==
  \A c \in Clients, from, to \in Nat : Admitted(c, from, to) > 0 =>
    /\ Admitted(c, from, to) * Token <= Burst + (to - from) * PerMinute
    /\ Covered(clients[c], Admitted(c, from, to), from)

\* The inductive invariant of the bound.
IInv == Typed /\ Recent /\ BucketsSolvent /\ WindowsCovered

-----------------------------------------------------------------------------
(* Numbers and sets. *)

\* Tokens come in with time.
LEMMA GainGrows ==
  ASSUME NEW x \in Int, NEW y \in Int, x <= y
  PROVE  x * PerMinute <= y * PerMinute
<1>1. PerMinute \in Nat
  BY PerMinuteAssumption
<1>2. (y - x) * PerMinute >= 0
  BY <1>1
<1> QED BY <1>1, <1>2

\* Whoever is decided later is decided after what comes earlier.
LEMMA Later == \A x, y, s \in Nat : y >= x /\ s >= y - MaxLag => s >= x - MaxLag
  BY BoundsAssumption

\* The number of requests admitted is a natural.
LEMMA AdmittedIsNat ==
  ASSUME Typed, NEW c \in Clients, NEW from \in Nat, NEW to \in Nat
  PROVE  Admitted(c, from, to) \in Nat
<1> DEFINE S == {i \in 1..Len(log) : log[i].client = c /\ log[i].ok /\ log[i].stamp \in from..to}
<1>1. Len(log) \in Nat
  BY LenProperties DEF Typed
<1>2. IsFiniteSet(1..Len(log)) /\ S \in SUBSET (1..Len(log))
  BY <1>1, FS_Interval
<1>3. IsFiniteSet(S)
  BY <1>2, FS_Subset
<1> QED BY <1>3, FS_CardinalityType DEF Admitted

\* A decision adds one to the windows of its client that it falls into.
LEMMA AdmittedAppend ==
  ASSUME Typed, NEW d \in Decision, log' = Append(log, d),
         NEW c \in Clients, NEW from \in Nat, NEW to \in Nat
  PROVE  Admitted(c, from, to)' = Admitted(c, from, to)
           + IF d.client = c /\ d.ok /\ d.stamp \in from..to THEN 1 ELSE 0
<1> DEFINE n == Len(log)
           S == {i \in 1..n : log[i].client = c /\ log[i].ok /\ log[i].stamp \in from..to}
           T == {i \in 1..(n + 1) : log'[i].client = c /\ log'[i].ok /\ log'[i].stamp \in from..to}
<1>1. n \in Nat /\ Len(log') = n + 1 /\ (\A i \in 1..n : log'[i] = log[i]) /\ log'[n + 1] = d
  BY LenProperties, AppendProperties DEF Typed
<1> HIDE DEF n
<1>2. IsFiniteSet(S)
  <2>1. IsFiniteSet(1..n)
    BY <1>1, FS_Interval
  <2>2. S \in SUBSET (1..n)
    OBVIOUS
  <2> QED BY <2>1, <2>2, FS_Subset
<1>3. 1..(n + 1) = 1..n \cup {n + 1} /\ n + 1 \notin S
  BY <1>1
<1>4. T = S \cup (IF d.client = c /\ d.ok /\ d.stamp \in from..to THEN {n + 1} ELSE {})
  BY <1>1, <1>3
<1>5. Cardinality(S \cup {n + 1}) = Cardinality(S) + 1 /\ Cardinality(S) \in Nat
  BY <1>2, <1>3, FS_AddElement, FS_CardinalityType
<1> HIDE DEF S, T
<1>6. Cardinality(T) = Cardinality(S) + IF d.client = c /\ d.ok /\ d.stamp \in from..to THEN 1 ELSE 0
  <2>1. CASE d.client = c /\ d.ok /\ d.stamp \in from..to
    BY <2>1, <1>4, <1>5
  <2>2. CASE ~ (d.client = c /\ d.ok /\ d.stamp \in from..to)
    <3>1. T = S
      BY <2>2, <1>4
    <3> QED BY <2>2, <3>1, <1>5
  <2> QED BY <2>1, <2>2
<1>7. Admitted(c, from, to) = Cardinality(S)
  BY DEF Admitted, n, S
<1>8. Admitted(c, from, to)' = Cardinality(T)
  BY <1>1 DEF Admitted, T
<1> QED BY <1>6, <1>7, <1>8

-----------------------------------------------------------------------------
(* The sweep. *)

\* A bucket that is swept would be full for every request that can still be decided.
LEMMA SweptIsFull ==
  ASSUME Typed, Recent, BucketsSolvent, NEW p \in pending, NEW c \in Clients,
         clients[c] # NoBucket, Forgotten(clients[c], p.stamp),
         NEW s \in Nat, s >= now - MaxLag
  PROVE  clients[c].tokens + (s - clients[c].last) * PerMinute >= Burst
<1> DEFINE b == clients[c]
<1>1. b \in Bucket
  BY DEF Typed
<1>2. /\ b.tokens \in Int /\ b.last \in Nat /\ p.stamp \in Nat /\ now \in Nat
      /\ MaxLag \in Nat /\ PerMinute \in Nat
  BY <1>1, BoundsAssumption, PerMinuteAssumption DEF Bucket, Typed, Pending
<1>3. p.stamp - b.last > 600 /\ p.stamp <= now
  BY DEF BucketsSolvent, Solvent, Forgotten, Recent
<1>4. s - b.last >= 60 + MaxLag
  BY <1>2, <1>3, LagAssumption
<1>5. (s - b.last) * PerMinute >= (60 + MaxLag) * PerMinute
  BY <1>2, <1>4, GainGrows
<1>6. b.tokens + MaxLag * PerMinute >= 0
  BY DEF BucketsSolvent, Solvent
<1> HIDE DEF b
<1>7. (60 + MaxLag) * PerMinute = 60 * PerMinute + MaxLag * PerMinute
  BY <1>2
<1>8. b.tokens + (s - b.last) * PerMinute >= 60 * PerMinute
  BY <1>2, <1>5, <1>6, <1>7
<1>9. Burst = 60 * PerMinute
  BY <1>2 DEF Burst, Token
<1> QED BY <1>8, <1>9 DEF b

\* The buckets after a sweep still cover the windows.
LEMMA SweepCovers ==
  ASSUME IInv, NEW p \in pending, NEW c \in Clients, NEW from \in Nat, NEW to \in Nat,
         Admitted(c, from, to) > 0
  PROVE  Covered(Swept(p.stamp)[c], Admitted(c, from, to), from)
<1> DEFINE b == clients[c]
           a == Admitted(c, from, to)
<1>1. Swept(p.stamp)[c] = b \/ (Swept(p.stamp)[c] = NoBucket /\ b # NoBucket /\ Forgotten(b, p.stamp))
  BY DEF Swept
<1>2. Covered(b, a, from)
  BY DEF IInv, WindowsCovered
<1>3. CASE Swept(p.stamp)[c] = NoBucket /\ b # NoBucket /\ Forgotten(b, p.stamp)
  <2>1. a * Token + b.tokens <= Burst + (b.last - from) * PerMinute
    BY <1>2, <1>3 DEF Covered
  <2>2. /\ a \in Nat /\ b.tokens \in Int /\ b.last \in Nat /\ PerMinute \in Nat
    BY <1>3, AdmittedIsNat, PerMinuteAssumption DEF IInv, Typed, Bucket
  <2>3. ASSUME NEW s \in Nat, s >= now - MaxLag
        PROVE  a * Token <= (s - from) * PerMinute
    <3>1. b.tokens + (s - b.last) * PerMinute >= Burst
      BY <1>3, <2>3, SweptIsFull DEF IInv
    <3> HIDE DEF a, b
    <3> QED BY <2>1, <2>2, <3>1 DEF Burst, Token
  <2> QED BY <1>3, <2>3 DEF Covered
<1> QED BY <1>1, <1>2, <1>3

-----------------------------------------------------------------------------
(* A decision. *)

\* What a bucket holds when a late request is decided.
LEMMA RefilledTokens ==
  ASSUME Typed, Recent, BucketsSolvent, NEW p \in pending,
         NEW b, NEW tokens,
         b = Swept(p.stamp)[p.client],
         tokens = IF b = NoBucket THEN Burst ELSE Refilled(b, p.stamp)
  PROVE  /\ tokens \in Int /\ tokens <= Burst
         /\ b # NoBucket => b = clients[p.client] /\ tokens <= b.tokens + (p.stamp - b.last) * PerMinute
         /\ tokens + (now - p.stamp) * PerMinute >= 0
         /\ tokens + MaxLag * PerMinute >= 0
<1>1. /\ p.client \in Clients /\ p.stamp \in Nat /\ p.stamp <= now /\ now - p.stamp <= MaxLag
      /\ now \in Nat /\ MaxLag \in Nat /\ PerMinute \in Nat
  BY BoundsAssumption, PerMinuteAssumption DEF Typed, Pending, Recent
<1>2. Burst \in Nat /\ (now - p.stamp) * PerMinute >= 0 /\ MaxLag * PerMinute >= (now - p.stamp) * PerMinute
  <2>1. 0 * PerMinute <= (now - p.stamp) * PerMinute
    BY <1>1, GainGrows
  <2>2. (now - p.stamp) * PerMinute <= MaxLag * PerMinute
    BY <1>1, GainGrows
  <2> QED BY <1>1, <2>1, <2>2 DEF Burst, Token
<1>3. CASE b = NoBucket
  BY <1>1, <1>2, <1>3
<1>4. CASE b # NoBucket
  <2>1. b = clients[p.client]
    BY <1>1, <1>4 DEF Swept
  <2>2. b.tokens \in Int /\ b.last \in Nat
    BY <1>1, <1>4, <2>1 DEF Typed, Bucket
  <2>3. b.tokens + (now - b.last) * PerMinute >= 0
    BY <1>1, <1>4, <2>1 DEF BucketsSolvent, Solvent
  <2>4. tokens = IF b.tokens + (p.stamp - b.last) * PerMinute > Burst THEN Burst
                 ELSE b.tokens + (p.stamp - b.last) * PerMinute
    BY <1>4 DEF Refilled
  <2>5. (now - b.last) * PerMinute = (p.stamp - b.last) * PerMinute + (now - p.stamp) * PerMinute
    BY <1>1, <2>2
  <2>6. (p.stamp - b.last) * PerMinute \in Int /\ (now - p.stamp) * PerMinute \in Int
    BY <1>1, <2>2
  <2> DEFINE gain == (p.stamp - b.last) * PerMinute
             wait == (now - p.stamp) * PerMinute
             lag  == MaxLag * PerMinute
  <2>7. lag \in Int
    BY <1>1
  <2>8. gain \in Int /\ wait \in Int /\ wait >= 0 /\ lag >= wait /\ b.tokens + gain + wait >= 0
        /\ tokens = (IF b.tokens + gain > Burst THEN Burst ELSE b.tokens + gain)
    BY <1>2, <2>2, <2>3, <2>4, <2>5, <2>6
  <2> HIDE DEF gain, wait, lag
  <2>9. /\ tokens \in Int /\ tokens <= Burst /\ tokens <= b.tokens + gain
        /\ tokens + wait >= 0 /\ tokens + lag >= 0
    BY <1>2, <2>2, <2>7, <2>8
  <2> QED BY <2>1, <2>9 DEF gain, wait, lag
<1> QED BY <1>3, <1>4

\* An answer: the bucket pays for what it lets pass.
LEMMA AllowStep == ASSUME IInv, NEW p \in pending, Allow(p) PROVE IInv'
<1> DEFINE old == Swept(p.stamp)[p.client]
           held == IF old = NoBucket THEN Burst ELSE Refilled(old, p.stamp)
<1>1. PICK c \in Clients, t \in Nat : p.client = c /\ p.stamp = t
  BY DEF IInv, Typed, Pending
<1>2. PICK b, tokens : b = old /\ tokens = held
  OBVIOUS
<1> DEFINE ok == tokens >= Token
           d == [client |-> c, stamp |-> t, ok |-> ok]
           left == IF ok THEN tokens - Token ELSE tokens
           new == [tokens |-> left, last |-> t, lastSeen |-> t]
<1>3. /\ clients' = [Swept(t) EXCEPT ![c] = new]
      /\ log' = Append(log, d)
      /\ lastSweep' = IF t - lastSweep > 300 THEN t ELSE lastSweep
      /\ pending' = pending \ {p}
      /\ now' = now
  BY <1>1, <1>2 DEF Allow
<1>4. /\ tokens \in Int /\ tokens <= Burst
      /\ b # NoBucket => b = clients[c] /\ tokens <= b.tokens + (t - b.last) * PerMinute
      /\ tokens + (now - t) * PerMinute >= 0
      /\ tokens + MaxLag * PerMinute >= 0
  BY <1>1, <1>2, RefilledTokens DEF IInv
<1>5. Token = 60 /\ Burst = PerMinute * 60 /\ PerMinute \in Nat /\ PerMinute >= 1 /\ Burst \in Nat /\ Burst >= 60
  BY PerMinuteAssumption DEF Token, Burst
<1>6. /\ left \in Int /\ left + (now - t) * PerMinute >= 0 /\ left + MaxLag * PerMinute >= 0
  <2>1. (now - t) * PerMinute >= 0 /\ MaxLag * PerMinute >= 0
    <3>1. t <= now /\ now \in Nat /\ MaxLag \in Nat
      BY <1>1, BoundsAssumption DEF IInv, Recent, Typed
    <3>2. 0 * PerMinute <= (now - t) * PerMinute /\ 0 * PerMinute <= MaxLag * PerMinute
      BY <3>1, GainGrows
    <3> QED BY <3>2, <1>5
  <2>2. (now - t) * PerMinute \in Int /\ MaxLag * PerMinute \in Int
    BY <1>5, BoundsAssumption DEF IInv, Typed
  <2> DEFINE wait == (now - t) * PerMinute
             lag  == MaxLag * PerMinute
  <2>3. wait \in Int /\ lag \in Int /\ wait >= 0 /\ lag >= 0 /\ tokens + wait >= 0 /\ tokens + lag >= 0
    BY <1>4, <2>1, <2>2
  <2> HIDE DEF wait, lag
  <2>4. left \in Int /\ left + wait >= 0 /\ left + lag >= 0
    BY <1>4, <1>5, <2>3
  <2> QED BY <2>4 DEF wait, lag
<1>7. new \in Bucket /\ d \in Decision /\ new # NoBucket
  BY <1>6, NoBucketAssumption DEF Bucket, Decision
<1>8. Swept(t) \in [Clients -> {NoBucket} \cup Bucket] /\ \A e \in Clients : Swept(t)[e] \in {NoBucket, clients[e]}
  BY DEF Swept, IInv, Typed
<1>9. clients'[c] = new /\ \A e \in Clients \ {c} : clients'[e] = Swept(t)[e]
  BY <1>3, <1>8
<1> HIDE DEF new, d, left
<1>10. Typed'
  <2>1. log' \in Seq(Decision)
    BY <1>3, <1>7, AppendProperties DEF IInv, Typed
  <2>2. clients' \in [Clients -> {NoBucket} \cup Bucket]
    BY <1>3, <1>7, <1>8
  <2> QED BY <1>3, <2>1, <2>2 DEF IInv, Typed
<1>11. Recent'
  BY <1>3 DEF IInv, Recent
<1>12. BucketsSolvent'
  <2>1. Solvent(new)'
    <3>1. new.tokens = left /\ new.last = t /\ new.lastSeen = t
      BY DEF new
    <3> HIDE DEF ok
    <3> QED BY <3>1, <1>3, <1>6 DEF Solvent, new
  <2> QED BY <2>1, <1>3, <1>8, <1>9 DEF IInv, BucketsSolvent, Solvent
<1>13. WindowsCovered'
  <2> SUFFICES ASSUME NEW e \in Clients, NEW from \in Nat, NEW to \in Nat, Admitted(e, from, to)' > 0
               PROVE  /\ Admitted(e, from, to)' * Token <= Burst + (to - from) * PerMinute
                      /\ Covered(clients[e], Admitted(e, from, to), from)'
    BY DEF WindowsCovered
  <2>1. Admitted(e, from, to) \in Nat
    BY AdmittedIsNat DEF IInv
  <2>2. Admitted(e, from, to)' = Admitted(e, from, to)
          + IF d.client = e /\ d.ok /\ d.stamp \in from..to THEN 1 ELSE 0
    BY <1>3, <1>7, AdmittedAppend DEF IInv
  <2>3. d.client = c /\ d.ok = ok /\ d.stamp = t
    BY DEF d
  <2>4. CASE e # c
    <3>1. Admitted(e, from, to)' = Admitted(e, from, to)
      BY <2>1, <2>2, <2>3, <2>4
    <3>2. Covered(Swept(t)[e], Admitted(e, from, to), from)
      BY <1>1, <3>1, SweepCovers
    <3>3. PICK m, a : m = Swept(t)[e] /\ a = Admitted(e, from, to)
      OBVIOUS
    <3>4. Covered(m, a, from)
      BY <3>2, <3>3
    <3>5. Covered(m, a, from)'
      BY <3>4, <1>3 DEF Covered
    <3>6. clients'[e] = m /\ Admitted(e, from, to)' = a
      BY <2>4, <3>1, <3>3, <1>9
    <3>7. Covered(clients[e], Admitted(e, from, to), from)'
      BY <3>5, <3>6
    <3>8. Admitted(e, from, to) * Token <= Burst + (to - from) * PerMinute
      BY <3>1 DEF IInv, WindowsCovered
    <3> QED BY <3>1, <3>7, <3>8
  <2>5. CASE e = c
    <3>1. PICK a \in Nat : a = Admitted(c, from, to)
      BY <2>1, <2>5
    <3>2. PICK a2 \in Nat : a2 = Admitted(c, from, to)'
      BY <2>1, <2>2, <2>5
    <3>3. a2 = a + (IF ok /\ t \in from..to THEN 1 ELSE 0) /\ a2 > 0
      BY <2>2, <2>3, <2>5, <3>1, <3>2
    <3>4. new.tokens = left /\ new.last = t
      BY DEF new
    <3>5. left = IF ok THEN tokens - 60 ELSE tokens
      BY <1>5 DEF left
    <3> DEFINE since == (t - from) * PerMinute
               width == (to - from) * PerMinute
    <3>6. since \in Int /\ width \in Int
      BY <1>5
    <3>7. t \in from..to => since >= 0 /\ since <= width
      <4>1. 0 <= t - from /\ t - from <= to - from => 0 * PerMinute <= since /\ since <= width
        BY GainGrows
      <4> QED BY <4>1, <1>5
    <3>8. a > 0 => a * 60 + tokens <= Burst + since
      <4> SUFFICES ASSUME a > 0 PROVE a * 60 + tokens <= Burst + since
        OBVIOUS
      <4>1. Covered(b, a, from)
        <5>1. Covered(Swept(t)[c], Admitted(c, from, to), from)
          BY <1>1, <3>1, SweepCovers
        <5> QED BY <5>1, <1>1, <1>2, <3>1
      <4>2. CASE b = NoBucket
        <5>1. t >= now - MaxLag
          BY <1>1, BoundsAssumption DEF IInv, Recent, Typed
        <5>2. a * 60 <= since
          BY <4>1, <4>2, <5>1, <1>5 DEF Covered
        <5> HIDE DEF since
        <5> QED BY <5>2, <3>6, <1>4, <1>5
      <4>3. CASE b # NoBucket
        <5>1. a * 60 + b.tokens <= Burst + (b.last - from) * PerMinute
          BY <4>1, <4>3, <1>5 DEF Covered
        <5>2. b.tokens \in Int /\ b.last \in Nat
          BY <4>3, <1>4 DEF IInv, Typed, Bucket
        <5>3. (t - from) * PerMinute = (t - b.last) * PerMinute + (b.last - from) * PerMinute
          BY <5>2, <1>5
        <5>4. (t - b.last) * PerMinute \in Int /\ (b.last - from) * PerMinute \in Int
          BY <5>2, <1>5
        <5>5. tokens <= b.tokens + (t - b.last) * PerMinute
          BY <4>3, <1>4
        <5> DEFINE gain == (t - b.last) * PerMinute
                   had  == (b.last - from) * PerMinute
        <5>6. since = gain + had /\ gain \in Int /\ had \in Int /\ tokens <= b.tokens + gain
              /\ a * 60 + b.tokens <= Burst + had
          BY <5>1, <5>3, <5>4, <5>5
        <5> HIDE DEF gain, had, since
        <5> QED BY <5>2, <5>6, <1>4, <1>5
      <4> QED BY <4>2, <4>3
    <3> HIDE DEF since, width
    <3>9. a2 * 60 <= Burst + width /\ a2 * 60 + left <= Burst + since
      <4>1. CASE ok /\ t \in from..to
        <5>1. a2 = a + 1 /\ tokens >= 60 /\ left = tokens - 60 /\ since >= 0 /\ since <= width
          BY <4>1, <3>3, <3>5, <3>7, <1>5
        <5>2. CASE a > 0
          BY <5>1, <5>2, <3>6, <3>8, <1>4, <1>5
        <5>3. CASE a = 0
          BY <5>1, <5>3, <3>6, <1>4, <1>5
        <5> QED BY <5>2, <5>3
      <4>2. CASE ~ (ok /\ t \in from..to)
        <5>1. a2 = a /\ a > 0
          BY <4>2, <3>3
        <5>2. left <= tokens
          BY <3>5, <1>4
        <5>3. a * 60 <= Burst + width
          BY <5>1, <3>1, <1>5 DEF IInv, WindowsCovered, width
        <5> QED BY <5>1, <5>2, <5>3, <3>6, <3>8, <1>4, <1>5, <1>6
      <4> QED BY <4>1, <4>2
    <3>10. clients'[c] # NoBucket /\ clients'[c].tokens = left /\ clients'[c].last = t
      BY <1>7, <1>9, <3>4
    <3>11. Covered(clients[c], Admitted(c, from, to), from)'
      BY <3>2, <3>9, <3>10, <1>5 DEF Covered, since
    <3> QED BY <2>5, <3>2, <3>9, <3>11, <1>5 DEF width
  <2> QED BY <2>4, <2>5
<1> QED BY <1>10, <1>11, <1>12, <1>13 DEF IInv

-----------------------------------------------------------------------------
(* The other steps, and the theorem. *)

\* Without a request the invariant holds.
LEMMA InitIInv == Init => IInv
<1> SUFFICES ASSUME Init PROVE IInv
  OBVIOUS
<1>1. Typed
  BY BoundsAssumption DEF Init, Typed
<1>2. Recent /\ BucketsSolvent
  BY DEF Init, Recent, BucketsSolvent
<1>3. WindowsCovered
  <2>1. \A c \in Clients, from, to \in Nat : Admitted(c, from, to) = 0
    <3> SUFFICES ASSUME NEW c \in Clients, NEW from \in Nat, NEW to \in Nat PROVE Admitted(c, from, to) = 0
      OBVIOUS
    <3>1. {i \in 1..Len(log) : log[i].client = c /\ log[i].ok /\ log[i].stamp \in from..to} = {}
      BY DEF Init
    <3> QED BY <3>1, FS_EmptySet DEF Admitted
  <2> QED BY <2>1 DEF WindowsCovered
<1> QED BY <1>1, <1>2, <1>3 DEF IInv

\* Time may only make the buckets fuller.
LEMMA TimePasses ==
  ASSUME IInv, now' \in Nat, now' >= now, now' <= MaxTime,
         \A p \in pending : now' - p.stamp <= MaxLag,
         UNCHANGED <<clients, lastSweep, log>>,
         pending' \subseteq Pending,
         \A p \in pending' : p \in pending \/ p.stamp = now'
  PROVE  IInv'
<1>1. now \in Nat /\ MaxLag \in Nat /\ PerMinute \in Nat
  BY BoundsAssumption, PerMinuteAssumption DEF IInv, Typed
<1>2. Typed'
  BY DEF IInv, Typed
<1>3. Recent'
  <2> SUFFICES ASSUME NEW p \in pending' PROVE p.stamp <= now' /\ now' - p.stamp <= MaxLag
    BY DEF Recent
  <2>1. p \in Pending
    OBVIOUS
  <2> QED BY <2>1, <1>1 DEF IInv, Recent, Pending
<1>4. BucketsSolvent'
  <2> SUFFICES ASSUME NEW c \in Clients, clients[c] # NoBucket
               PROVE  /\ clients[c].last = clients[c].lastSeen
                      /\ clients[c].tokens + (now' - clients[c].last) * PerMinute >= 0
                      /\ clients[c].tokens + MaxLag * PerMinute >= 0
    BY DEF BucketsSolvent, Solvent
  <2>1. clients[c].tokens \in Int /\ clients[c].last \in Nat
    BY DEF IInv, Typed, Bucket
  <2>2. (now - clients[c].last) * PerMinute <= (now' - clients[c].last) * PerMinute
    BY <1>1, <2>1, GainGrows
  <2>3. (now - clients[c].last) * PerMinute \in Int /\ (now' - clients[c].last) * PerMinute \in Int
    BY <1>1, <2>1
  <2>4. /\ clients[c].last = clients[c].lastSeen
        /\ clients[c].tokens + (now - clients[c].last) * PerMinute >= 0
        /\ clients[c].tokens + MaxLag * PerMinute >= 0
    BY DEF IInv, BucketsSolvent, Solvent
  <2> DEFINE x == (now - clients[c].last) * PerMinute
             y == (now' - clients[c].last) * PerMinute
  <2>5. x \in Int /\ y \in Int /\ x <= y /\ clients[c].tokens + x >= 0
    BY <2>2, <2>3, <2>4
  <2> HIDE DEF x, y
  <2>6. clients[c].tokens + y >= 0
    BY <2>1, <2>5
  <2> QED BY <2>4, <2>6 DEF y
<1>5. WindowsCovered'
  <2> SUFFICES ASSUME NEW c \in Clients, NEW from \in Nat, NEW to \in Nat, Admitted(c, from, to)' > 0
               PROVE  /\ Admitted(c, from, to)' * Token <= Burst + (to - from) * PerMinute
                      /\ Covered(clients[c], Admitted(c, from, to), from)'
    BY DEF WindowsCovered
  <2>1. Admitted(c, from, to)' = Admitted(c, from, to)
    BY DEF Admitted
  <2>2. Covered(clients[c], Admitted(c, from, to), from)
    BY <2>1 DEF IInv, WindowsCovered
  <2>3. PICK b, a : b = clients[c] /\ a = Admitted(c, from, to)
    OBVIOUS
  <2>4. Covered(b, a, from)'
    <3>1. ASSUME NEW s \in Nat, s >= now' - MaxLag PROVE s >= now - MaxLag
      BY <1>1, <3>1, Later
    <3> QED BY <2>2, <2>3, <3>1 DEF Covered
  <2>5. Covered(clients[c], Admitted(c, from, to), from)'
    BY <2>1, <2>3, <2>4
  <2> QED BY <2>1, <2>5 DEF IInv, WindowsCovered
<1> QED BY <1>2, <1>3, <1>4, <1>5 DEF IInv

\* A request arrives and reads the clock.
LEMMA ArriveStep == ASSUME IInv, NEW r \in Requests, NEW c \in Clients, Arrive(r, c) PROVE IInv'
<1>1. [req |-> r, client |-> c, stamp |-> now] \in Pending
  BY DEF IInv, Typed, Pending
<1>2. pending' \subseteq Pending /\ \A p \in pending' : p \in pending \/ p.stamp = now'
  BY <1>1 DEF Arrive, IInv, Typed
<1>3. now' = now /\ UNCHANGED <<clients, lastSweep, log>>
  BY DEF Arrive
<1>4. now \in Nat /\ now <= MaxTime /\ MaxTime \in Nat /\ \A p \in pending : now' - p.stamp <= MaxLag
  BY <1>3, BoundsAssumption DEF IInv, Typed, Recent
<1> QED BY <1>2, <1>3, <1>4, TimePasses

\* Time passes.
LEMMA TickStep == ASSUME IInv, NEW d \in Delays, Tick(d) PROVE IInv'
<1>1. now \in Nat /\ now <= MaxTime /\ MaxTime \in Nat /\ d \in Nat /\ MaxLag \in Nat
  BY BoundsAssumption DEF IInv, Typed
<1>2. now' \in Nat /\ now' >= now /\ now' <= MaxTime /\ now' <= now + d
  BY <1>1 DEF Tick
<1>3. \A p \in pending : p.stamp \in Nat /\ now + d - p.stamp <= MaxLag
  BY DEF Tick, IInv, Typed, Pending
<1>4. \A p \in pending : now' - p.stamp <= MaxLag
  BY <1>1, <1>2, <1>3
<1>5. pending' \subseteq Pending /\ \A p \in pending' : p \in pending \/ p.stamp = now'
  BY DEF Tick, IInv, Typed
<1>6. UNCHANGED <<clients, lastSweep, log>>
  BY DEF Tick
<1> QED BY <1>2, <1>4, <1>5, <1>6, TimePasses

\* The invariant holds in every state of every instance.
THEOREM Invariant == Spec => []IInv
<1>1. Init => IInv
  BY InitIInv
<1>2. IInv /\ [Next]_vars => IInv'
  <2> SUFFICES ASSUME IInv, [Next]_vars PROVE IInv'
    OBVIOUS
  <2>1. CASE \E r \in Requests, c \in Clients : Arrive(r, c)
    BY <2>1, ArriveStep
  <2>2. CASE \E p \in pending : Allow(p)
    BY <2>2, AllowStep
  <2>3. CASE \E d \in Delays : Tick(d)
    BY <2>3, TickStep
  <2>4. CASE UNCHANGED vars
    <3>1. /\ now' \in Nat /\ now' >= now /\ now' <= MaxTime
          /\ \A p \in pending : now' - p.stamp <= MaxLag
          /\ UNCHANGED <<clients, lastSweep, log>> /\ pending' \subseteq Pending
          /\ \A p \in pending' : p \in pending \/ p.stamp = now'
      BY <2>4 DEF vars, IInv, Typed, Recent
    <3> QED BY <3>1, TimePasses
  <2> QED BY <2>1, <2>2, <2>3, <2>4 DEF Next
<1> QED BY <1>1, <1>2, PTL DEF Spec

\* A client gets at most the burst and what comes in during the window, however its
\* requests overtake each other and whenever its bucket is swept (allowWithRemaining).
THEOREM WindowIsBounded == Spec => []WindowBound
<1>1. IInv => WindowBound
  <2> SUFFICES ASSUME IInv, NEW c \in Clients, NEW from \in Stamps, NEW to \in Stamps, from <= to
               PROVE  Admitted(c, from, to) * Token <= Burst + (to - from) * PerMinute
    BY DEF WindowBound
  <2>1. from \in Nat /\ to \in Nat
    <3>1. \A i \in 1..Len(log) : log[i] \in Decision
      BY ElementOfSeq DEF IInv, Typed
    <3> QED BY <3>1 DEF Stamps, Decision
  <2>2. Admitted(c, from, to) \in Nat
    BY <2>1, AdmittedIsNat DEF IInv
  <2>3. CASE Admitted(c, from, to) > 0
    BY <2>1, <2>3 DEF IInv, WindowsCovered
  <2>4. CASE Admitted(c, from, to) = 0
    <3>1. 0 * PerMinute <= (to - from) * PerMinute /\ (to - from) * PerMinute \in Int /\ PerMinute \in Nat
      BY <2>1, GainGrows, PerMinuteAssumption
    <3> QED BY <2>4, <3>1 DEF Burst, Token
  <2> QED BY <2>2, <2>3, <2>4
<1> QED BY <1>1, Invariant, PTL

-----------------------------------------------------------------------------
(* Sweeping is invisible. *)

\* f is what a bucket of c that is never swept holds after each decision.
Follows(c, f) ==
  f = [n \in 0..Len(log) |->
         IF n = 0 THEN [units |-> Burst, at |-> 0] ELSE Spent(f[n - 1], c, log[n])]

\* The bucket b stands for it; without a bucket it is full for every request that can
\* still be decided.
StandsFor(b, left) ==
  IF b = NoBucket
  THEN \A s \in Nat : s >= now - MaxLag => left.units + (s - left.at) * PerMinute >= Burst
  ELSE b.tokens = left.units /\ b.last = left.at

Answers(c, f) == \A i \in 1..Len(log) : log[i].client = c => log[i].ok = f[i].ok

\* The inductive invariant of the answers.
Unswept ==
  \A c \in Clients :
    /\ \E f : Follows(c, f)
    /\ \A f : Follows(c, f) =>
         /\ f[Len(log)].units \in Int /\ f[Len(log)].at \in Nat
         /\ Answers(c, f)
         /\ StandsFor(clients[c], f[Len(log)])

\* The recursive definition is such a function, as there is one.
LEMMA RememberedFollows ==
  ASSUME NEW c \in Clients, \E f : Follows(c, f)
  PROVE  Follows(c, Remembered(c))
  BY DEF Follows, Remembered

\* A decision prolongs it by one entry.
LEMMA Prolonged ==
  ASSUME Typed, NEW d \in Decision, log' = Append(log, d), NEW c \in Clients, NEW f, Follows(c, f)
  PROVE  \E g : Follows(c, g)'
<1> DEFINE n == Len(log)
           g == [m \in 0..(n + 1) |-> IF m <= n THEN f[m] ELSE Spent(f[n], c, d)]
<1>1. n \in Nat /\ Len(log') = n + 1 /\ (\A i \in 1..n : log'[i] = log[i]) /\ log'[n + 1] = d
  BY LenProperties, AppendProperties DEF Typed
<1> HIDE DEF n
<1>2. \A m \in 0..n : f[m] = IF m = 0 THEN [units |-> Burst, at |-> 0] ELSE Spent(f[m - 1], c, log[m])
  BY DEF Follows, n
<1>3. \A m \in 0..(n + 1) :
        g[m] = IF m = 0 THEN [units |-> Burst, at |-> 0] ELSE Spent(g[m - 1], c, log'[m])
  <2> SUFFICES ASSUME NEW m \in 0..(n + 1)
               PROVE  g[m] = IF m = 0 THEN [units |-> Burst, at |-> 0] ELSE Spent(g[m - 1], c, log'[m])
    OBVIOUS
  <2>1. CASE m = 0
    BY <2>1, <1>1, <1>2
  <2>2. CASE m # 0 /\ m <= n
    <3>1. g[m] = f[m] /\ g[m - 1] = f[m - 1] /\ log'[m] = log[m] /\ m \in 0..n
      BY <2>2, <1>1
    <3> QED BY <3>1, <2>2, <1>2
  <2>3. CASE m = n + 1
    <3>1. g[m] = Spent(f[n], c, d) /\ g[m - 1] = f[n] /\ log'[m] = d /\ m # 0
      BY <2>3, <1>1
    <3> QED BY <3>1
  <2> QED BY <2>1, <2>2, <2>3, <1>1
<1>4. g = [m \in 0..Len(log') |->
             IF m = 0 THEN [units |-> Burst, at |-> 0] ELSE Spent(g[m - 1], c, log'[m])]
  BY <1>1, <1>3
<1> HIDE DEF g
<1>5. PICK h : h = g
  OBVIOUS
<1>6. Follows(c, h)'
  BY <1>4, <1>5 DEF Follows, Spent
<1> QED BY <1>6

\* And what follows the longer log followed the shorter one.
LEMMA Shortened ==
  ASSUME Typed, NEW d \in Decision, log' = Append(log, d), NEW c \in Clients, NEW g, Follows(c, g)'
  PROVE  \E f : /\ Follows(c, f)
                /\ \A i \in 0..Len(log) : f[i] = g[i]
                /\ g[Len(log) + 1] = Spent(f[Len(log)], c, d)
<1> DEFINE n == Len(log)
           f == [m \in 0..n |-> g[m]]
<1>1. n \in Nat /\ Len(log') = n + 1 /\ (\A i \in 1..n : log'[i] = log[i]) /\ log'[n + 1] = d
  BY LenProperties, AppendProperties DEF Typed
<1>2. \A m \in 0..(n + 1) :
        g[m] = IF m = 0 THEN [units |-> Burst, at |-> 0] ELSE Spent(g[m - 1], c, log'[m])
  BY <1>1 DEF Follows, Spent
<1> HIDE DEF n
<1>3. \A m \in 0..n : f[m] = IF m = 0 THEN [units |-> Burst, at |-> 0] ELSE Spent(f[m - 1], c, log[m])
  <2> SUFFICES ASSUME NEW m \in 0..n
               PROVE  f[m] = IF m = 0 THEN [units |-> Burst, at |-> 0] ELSE Spent(f[m - 1], c, log[m])
    OBVIOUS
  <2>1. f[m] = g[m] /\ m \in 0..(n + 1)
    BY <1>1
  <2>2. m # 0 => f[m - 1] = g[m - 1] /\ log'[m] = log[m]
    BY <1>1
  <2> QED BY <2>1, <2>2, <1>2
<1>4. Follows(c, f)
  BY <1>3 DEF Follows, n
<1>5. g[n + 1] = Spent(f[n], c, d)
  <2>1. n + 1 \in 0..(n + 1) /\ n + 1 # 0 /\ (n + 1) - 1 = n /\ f[n] = g[n] /\ log'[n + 1] = d
    BY <1>1
  <2> HIDE DEF f
  <2> QED BY <2>1, <1>2
<1>6. \A i \in 0..n : f[i] = g[i]
  OBVIOUS
<1> HIDE DEF f
<1> QED BY <1>4, <1>5, <1>6 DEF n

\* Without a request no sweep can have been noticed.
LEMMA InitUnswept == Init => Unswept
<1> SUFFICES ASSUME Init, NEW c \in Clients
             PROVE  /\ \E f : Follows(c, f)
                    /\ \A f : Follows(c, f) =>
                         /\ f[Len(log)].units \in Int /\ f[Len(log)].at \in Nat
                         /\ Answers(c, f)
                         /\ StandsFor(clients[c], f[Len(log)])
  BY DEF Unswept
<1>1. Len(log) = 0 /\ clients[c] = NoBucket
  BY DEF Init
<1> DEFINE first == [units |-> Burst, at |-> 0]
           f0 == [n \in 0..0 |-> first]
<1>2. Follows(c, f0)
  <2>1. \A n \in 0..0 : n = 0
    OBVIOUS
  <2> QED BY <1>1, <2>1 DEF Follows
<1>3. ASSUME NEW f, Follows(c, f) PROVE f[0] = first
  BY <1>1, <1>3 DEF Follows
<1>4. PerMinute \in Nat /\ Burst \in Nat
  BY PerMinuteAssumption DEF Burst, Token
<1>5. \A s \in Nat : first.units + (s - first.at) * PerMinute >= Burst
  <2> SUFFICES ASSUME NEW s \in Nat PROVE Burst + (s - 0) * PerMinute >= Burst
    OBVIOUS
  <2>1. 0 * PerMinute <= (s - 0) * PerMinute /\ (s - 0) * PerMinute \in Int
    BY <1>4, GainGrows
  <2> QED BY <1>4, <2>1
<1>6. ASSUME NEW f, Follows(c, f)
      PROVE  /\ f[Len(log)].units \in Int /\ f[Len(log)].at \in Nat
             /\ Answers(c, f)
             /\ StandsFor(clients[c], f[Len(log)])
  <2>1. f[Len(log)] = first
    BY <1>1, <1>3, <1>6
  <2>2. Answers(c, f)
    BY <1>1 DEF Answers
  <2>3. StandsFor(clients[c], first)
    BY <1>1, <1>5 DEF StandsFor
  <2> QED BY <2>1, <2>2, <2>3, <1>4
<1> QED BY <1>2, <1>6

\* After the sweep the buckets still stand for those that live forever.
LEMMA SweepStands ==
  ASSUME IInv, NEW p \in pending, NEW c \in Clients, NEW left, left.units \in Int, left.at \in Nat,
         StandsFor(clients[c], left)
  PROVE  StandsFor(Swept(p.stamp)[c], left)
<1>1. \/ Swept(p.stamp)[c] = clients[c]
      \/ Swept(p.stamp)[c] = NoBucket /\ clients[c] # NoBucket /\ Forgotten(clients[c], p.stamp)
  BY DEF Swept
<1>2. CASE Swept(p.stamp)[c] = NoBucket /\ clients[c] # NoBucket /\ Forgotten(clients[c], p.stamp)
  <2>1. clients[c].tokens = left.units /\ clients[c].last = left.at
    BY <1>2 DEF StandsFor
  <2>2. \A s \in Nat : s >= now - MaxLag => clients[c].tokens + (s - clients[c].last) * PerMinute >= Burst
    BY <1>2, SweptIsFull DEF IInv
  <2> QED BY <1>2, <2>1, <2>2 DEF StandsFor
<1> QED BY <1>1, <1>2

\* An answer is that of the bucket nobody sweeps.
LEMMA AllowUnswept == ASSUME IInv, Unswept, NEW p \in pending, Allow(p) PROVE Unswept'
<1> DEFINE old == Swept(p.stamp)[p.client]
           held == IF old = NoBucket THEN Burst ELSE Refilled(old, p.stamp)
<1>1. PICK c \in Clients, t \in Nat : p.client = c /\ p.stamp = t
  BY DEF IInv, Typed, Pending
<1>2. PICK b, tokens : b = old /\ tokens = held
  OBVIOUS
<1>5. /\ tokens \in Int
      /\ b # NoBucket => b = clients[c]
  BY <1>1, <1>2, RefilledTokens DEF IInv
<1>3. PICK ok \in BOOLEAN : ok = (tokens >= Token)
  <2>1. (tokens >= Token) \in BOOLEAN
    BY <1>5 DEF Token
  <2> QED BY <2>1, Zenon
<1> DEFINE d == [client |-> c, stamp |-> t, ok |-> ok]
           new == [tokens |-> IF ok THEN tokens - Token ELSE tokens, last |-> t, lastSeen |-> t]
<1>4. /\ clients' = [Swept(t) EXCEPT ![c] = new]
      /\ log' = Append(log, d)
      /\ now' = now
  BY <1>1, <1>2, <1>3 DEF Allow
<1>6. d \in Decision /\ d.client = c /\ d.stamp = t /\ d.ok = ok
  BY DEF Decision
<1>7. new # NoBucket /\ new.last = t /\ new.tokens = IF ok THEN tokens - Token ELSE tokens
  <2>1. new \in [tokens : Int, last : Int, lastSeen : Int]
    BY <1>5 DEF Token
  <2> QED BY <2>1, NoBucketAssumption
<1> HIDE DEF d, new
<1>8. clients'[c] = new /\ \A e \in Clients \ {c} : clients'[e] = Swept(t)[e]
  BY <1>4 DEF Swept
<1>9. Len(log) \in Nat /\ Len(log') = Len(log) + 1 /\ log'[Len(log) + 1] = d
      /\ \A i \in 1..Len(log) : log'[i] = log[i]
  BY <1>4, <1>6, LenProperties, AppendProperties DEF IInv, Typed
<1> SUFFICES ASSUME NEW e \in Clients
             PROVE  /\ \E f : Follows(e, f)'
                    /\ \A g : Follows(e, g)' =>
                         /\ g[Len(log')].units \in Int /\ g[Len(log')].at \in Nat
                         /\ Answers(e, g)'
                         /\ StandsFor(clients[e], g[Len(log)])'
  BY DEF Unswept
<1>10. \E f : Follows(e, f)'
  <2>1. PICK f : Follows(e, f)
    BY DEF Unswept
  <2> QED BY <2>1, <1>4, <1>6, Prolonged DEF IInv
<1>11. ASSUME NEW g, Follows(e, g)'
       PROVE  /\ g[Len(log')].units \in Int /\ g[Len(log')].at \in Nat
              /\ Answers(e, g)'
              /\ StandsFor(clients[e], g[Len(log)])'
  <2>1. PICK f : /\ Follows(e, f)
                 /\ \A i \in 0..Len(log) : f[i] = g[i]
                 /\ g[Len(log) + 1] = Spent(f[Len(log)], e, d)
    BY <1>4, <1>6, <1>11, Shortened DEF IInv
  <2>2. PICK left, last : left = f[Len(log)] /\ last = g[Len(log')]
    OBVIOUS
  <2>3. /\ left.units \in Int /\ left.at \in Nat
        /\ Answers(e, f)
        /\ StandsFor(clients[e], left)
    BY <2>1, <2>2 DEF Unswept
  <2>4. last = Spent(left, e, d)
    BY <2>1, <2>2, <1>9
  <2>5. StandsFor(Swept(t)[e], left)
    BY <2>3, <1>1, SweepStands
  <2>6. \A i \in 1..Len(log) : log'[i].client = e => log'[i].ok = g[i].ok
    <3> SUFFICES ASSUME NEW i \in 1..Len(log), log'[i].client = e PROVE log'[i].ok = g[i].ok
      OBVIOUS
    <3>1. log'[i] = log[i] /\ f[i] = g[i]
      BY <2>1, <1>9
    <3> QED BY <3>1, <2>3 DEF Answers
  <2>7. CASE e # c
    <3>1. last = left
      BY <2>4, <2>7, <1>6 DEF Spent
    <3>2. Answers(e, g)'
      BY <2>6, <2>7, <1>6, <1>9 DEF Answers
    <3>3. PICK m : m = Swept(t)[e]
      OBVIOUS
    <3>4. StandsFor(m, left)'
      BY <2>5, <3>3, <1>4 DEF StandsFor
    <3>5. StandsFor(clients[e], g[Len(log)])'
      BY <3>1, <3>3, <3>4, <2>2, <2>7, <1>8
    <3> QED BY <3>1, <3>2, <3>5, <2>2, <2>3
  <2>8. CASE e = c
    <3>1. StandsFor(b, left)
      BY <2>5, <2>8, <1>1, <1>2
    <3> DEFINE gained == left.units + (t - left.at) * PerMinute
               full == IF gained > Burst THEN Burst ELSE gained
    <3>2. last = [units |-> IF full >= Token THEN full - Token ELSE full, at |-> t, ok |-> full >= Token]
      BY <2>4, <2>8, <1>6 DEF Spent
    <3>3. full = tokens
      <4>1. CASE b = NoBucket
        <5>1. t >= now - MaxLag
          BY <1>1, BoundsAssumption DEF IInv, Recent, Typed
        <5>2. gained >= Burst
          BY <3>1, <4>1, <5>1 DEF StandsFor
        <5>3. tokens = Burst
          BY <4>1, <1>2
        <5>4. gained \in Int /\ Burst \in Int
          BY <2>3, PerMinuteAssumption DEF Burst, Token
        <5> HIDE DEF gained
        <5> QED BY <5>2, <5>3, <5>4
      <4>2. CASE b # NoBucket
        <5>1. b.tokens = left.units /\ b.last = left.at
          BY <3>1, <4>2 DEF StandsFor
        <5>2. tokens = Refilled(b, t)
          BY <4>2, <1>1, <1>2
        <5> QED BY <5>1, <5>2 DEF Refilled
      <4> QED BY <4>1, <4>2
    <3> HIDE DEF full
    <3>4. last.units = (IF ok THEN tokens - Token ELSE tokens) /\ last.at = t /\ last.ok = ok
      BY <3>2, <3>3, <1>3
    <3>5. last.units \in Int /\ last.at \in Nat
      BY <3>4, <1>5 DEF Token
    <3>6. Answers(e, g)'
      <4>1. log'[Len(log) + 1].ok = g[Len(log) + 1].ok
        BY <3>4, <2>2, <1>6, <1>9
      <4> QED BY <4>1, <2>6, <1>9 DEF Answers
    <3>7. PICK m : m = new
      OBVIOUS
    <3>8. StandsFor(m, last)'
      BY <3>4, <3>7, <1>7 DEF StandsFor
    <3>9. StandsFor(clients[e], g[Len(log)])'
      BY <3>7, <3>8, <2>2, <2>8, <1>8
    <3> QED BY <3>5, <3>6, <3>9, <2>2
  <2> QED BY <2>7, <2>8
<1> QED BY <1>10, <1>11

\* Neither time nor an arrival changes an answer.
LEMMA TimeUnswept ==
  ASSUME IInv, Unswept, now' \in Nat, now' >= now, UNCHANGED <<clients, log>>
  PROVE  Unswept'
<1>1. now \in Nat /\ MaxLag \in Nat
  BY BoundsAssumption DEF IInv, Typed
<1> SUFFICES ASSUME NEW c \in Clients
             PROVE  /\ \E f : Follows(c, f)'
                    /\ \A f : Follows(c, f)' =>
                         /\ f[Len(log')].units \in Int /\ f[Len(log')].at \in Nat
                         /\ Answers(c, f)'
                         /\ StandsFor(clients[c], f[Len(log)])'
  BY DEF Unswept
<1>2. \A f : Follows(c, f)' <=> Follows(c, f)
  BY DEF Follows
<1>3. ASSUME NEW f, Follows(c, f)
      PROVE  /\ f[Len(log')].units \in Int /\ f[Len(log')].at \in Nat
             /\ Answers(c, f)'
             /\ StandsFor(clients[c], f[Len(log)])'
  <2>1. PICK b, left : b = clients[c] /\ left = f[Len(log)]
    OBVIOUS
  <2>2. left.units \in Int /\ left.at \in Nat /\ Answers(c, f) /\ StandsFor(b, left)
    BY <1>3, <2>1 DEF Unswept
  <2>3. ASSUME NEW s \in Nat, s >= now' - MaxLag PROVE s >= now - MaxLag
    BY <1>1, <2>3, Later
  <2>4. StandsFor(b, left)'
    BY <2>2, <2>3 DEF StandsFor
  <2>5. Answers(c, f)'
    BY <2>2 DEF Answers
  <2>6. StandsFor(clients[c], f[Len(log)])'
    BY <2>1, <2>4
  <2> QED BY <2>1, <2>2, <2>5, <2>6
<1> QED BY <1>2, <1>3 DEF Unswept

\* Every answer is that of a bucket of the client's own that was never swept
\* (sweepLocked).
THEOREM SweepsAreInvisible == Spec => []SweepInvisible
<1>1. Init => Unswept
  BY InitUnswept
<1>2. IInv /\ Unswept /\ [Next]_vars => Unswept'
  <2> SUFFICES ASSUME IInv, Unswept, [Next]_vars PROVE Unswept'
    OBVIOUS
  <2>1. now \in Nat /\ now <= MaxTime /\ MaxTime \in Nat
    BY BoundsAssumption DEF IInv, Typed
  <2>2. ASSUME NEW r \in Requests, NEW c \in Clients, Arrive(r, c) PROVE Unswept'
    <3>1. now' \in Nat /\ now' >= now /\ UNCHANGED <<clients, log>>
      BY <2>1, <2>2 DEF Arrive
    <3> QED BY <3>1, TimeUnswept
  <2>3. ASSUME NEW d \in Delays, Tick(d) PROVE Unswept'
    <3>1. now' \in Nat /\ now' >= now /\ UNCHANGED <<clients, log>>
      BY <2>1, <2>3, BoundsAssumption DEF Tick
    <3> QED BY <3>1, TimeUnswept
  <2>4. CASE UNCHANGED vars
    <3>1. now' \in Nat /\ now' >= now /\ UNCHANGED <<clients, log>>
      BY <2>1, <2>4 DEF vars
    <3> QED BY <3>1, TimeUnswept
  <2>5. ASSUME NEW p \in pending, Allow(p) PROVE Unswept'
    BY <2>5, AllowUnswept
  <2> QED BY <2>2, <2>3, <2>4, <2>5 DEF Next
<1>3. IInv /\ Unswept => SweepInvisible
  <2> SUFFICES ASSUME IInv, Unswept, NEW i \in 1..Len(log)
               PROVE  log[i].ok = Remembered(log[i].client)[i].ok
    BY DEF SweepInvisible
  <2>0. log[i] \in Decision
    BY ElementOfSeq DEF IInv, Typed
  <2>1. PICK c \in Clients : c = log[i].client
    BY <2>0 DEF Decision
  <2>2. Follows(c, Remembered(c))
    BY RememberedFollows DEF Unswept
  <2>3. Answers(c, Remembered(c))
    BY <2>2 DEF Unswept
  <2> QED BY <2>1, <2>3 DEF Answers
<1> QED BY <1>1, <1>2, <1>3, Invariant, PTL DEF Spec
=============================================================================
