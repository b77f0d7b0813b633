---------------------------- MODULE RateLimiter ----------------------------
(***************************************************************************)
(* The per-client token bucket of pkg/server/ratelimit.go.                 *)
(*                                                                         *)
(* Tokens are counted in sixtieths, so a bucket gains PerMinute units per  *)
(* second.  A request reads the clock before it takes the limiter's mutex: *)
(* requests are decided in the order of the mutex, with the times they     *)
(* read, which need not be in that order.                                  *)
(***************************************************************************)
EXTENDS Integers, Sequences, FiniteSets

CONSTANTS
  Clients,      \* keys, client addresses
  Requests,     \* goroutines that call allow
  NoBucket,     \* a nil *bucket
  PerMinute,    \* --rate-limit
  Delays,       \* seconds that may pass between two steps
  MaxTime,      \* bound on the clock
  MaxLag,       \* bound on the time between reading the clock and the mutex
  MaxDecisions  \* bound on the number of requests

ASSUME PerMinuteAssumption == PerMinute \in Nat \ {0}
ASSUME BoundsAssumption ==
  Delays \subseteq Nat /\ MaxTime \in Nat /\ MaxLag \in Nat /\ MaxDecisions \in Nat
\* The mutex is held for a few instructions.  A bucket is full again after a minute and
\* swept after ten: a request that waited longer than half the difference could still
\* need one that was swept before it was full.
ASSUME LagAssumption == 2 * MaxLag <= 600 - 60
ASSUME NoBucketAssumption == NoBucket \notin [tokens : Int, last : Int, lastSeen : Int]

VARIABLES
  now,        \* the clock
  clients,    \* rateLimiter.clients
  lastSweep,  \* rateLimiter.lastSweep
  pending,    \* requests between time.Now() and rl.mu.Lock()
  log         \* the decisions taken so far, in the order of the mutex

vars == <<now, clients, lastSweep, pending, log>>

Token == 60
Burst == PerMinute * Token

Init ==
  /\ now = 0
  /\ clients = [c \in Clients |-> NoBucket]
  /\ lastSweep = 0
  /\ pending = {}
  /\ log = <<>>

Arrive(r, c) ==
  /\ Len(log) + Cardinality(pending) < MaxDecisions
  /\ \A p \in pending : p.req # r
  /\ pending' = pending \cup {[req |-> r, client |-> c, stamp |-> now]}
  /\ UNCHANGED <<now, clients, lastSweep, log>>

\* Mutant: ten seconds instead of ten minutes.
ForgottenSoon(b, t) == t - b.lastSeen > 10

\* sweepLocked deletes the buckets not seen for ten minutes.
Forgotten(b, t) == t - b.lastSeen > 600

\* The map after the sweep that is due every five minutes.
Swept(t) ==
  [c \in Clients |->
     IF t - lastSweep > 300 /\ clients[c] # NoBucket /\ Forgotten(clients[c], t)
     THEN NoBucket ELSE clients[c]]

\* Mutant: the refill is not capped.
RefilledUncapped(b, t) == b.tokens + (t - b.last) * PerMinute

\* What the time since the last request adds, up to the burst; t may be
\* before that request.
Refilled(b, t) ==
  LET tokens == b.tokens + (t - b.last) * PerMinute
  IN  IF tokens > Burst THEN Burst ELSE tokens

\* allowWithRemaining under the mutex: sweep, create or refill, take a token.
Allow(p) ==
  /\ p \in pending
  /\ LET buckets == Swept(p.stamp)
         tokens == IF buckets[p.client] = NoBucket THEN Burst
                   ELSE Refilled(buckets[p.client], p.stamp)
         ok == tokens >= Token
     IN  /\ clients' = [buckets EXCEPT ![p.client] =
                          [tokens |-> IF ok THEN tokens - Token ELSE tokens,
                           last |-> p.stamp, lastSeen |-> p.stamp]]
         /\ log' = Append(log, [client |-> p.client, stamp |-> p.stamp, ok |-> ok])
  /\ lastSweep' = IF p.stamp - lastSweep > 300 THEN p.stamp ELSE lastSweep
  /\ pending' = pending \ {p}
  /\ UNCHANGED now

\* Time passes; no request waits for the mutex for more than MaxLag.
Tick(d) ==
  /\ \A p \in pending : now + d - p.stamp <= MaxLag
  /\ now' = IF now + d > MaxTime THEN MaxTime ELSE now + d
  /\ UNCHANGED <<clients, lastSweep, pending, log>>

Next ==
  \/ \E r \in Requests, c \in Clients : Arrive(r, c)
  \/ \E p \in pending : Allow(p)
  \/ \E d \in Delays : Tick(d)

Spec == Init /\ [][Next]_vars

-----------------------------------------------------------------------------
(* Properties. *)

\* The requests of client c admitted with times in from..to.
Admitted(c, from, to) ==
  Cardinality({i \in 1..Len(log) : /\ log[i].client = c /\ log[i].ok
                                   /\ log[i].stamp \in from..to})

Stamps == {log[i].stamp : i \in 1..Len(log)}

\* What a token bucket promises: in any window a client gets at most the burst
\* and what the window refills, however its requests overtake each other.
WindowBound ==
  \A c \in Clients : \A from, to \in Stamps :
    from <= to => Admitted(c, from, to) * Token <= Burst + (to - from) * PerMinute

\* What a bucket of client c holds after the decision d.
Spent(left, c, d) ==
  LET gained == left.units + (d.stamp - left.at) * PerMinute
      full == IF gained > Burst THEN Burst ELSE gained
  IN  IF d.client # c THEN left
      ELSE [units |-> IF full >= Token THEN full - Token ELSE full, at |-> d.stamp, ok |-> full >= Token]

\* The units client c has left after the first n decisions, if its bucket had
\* always existed and were never swept.
Remembered(c) ==
  LET left[n \in 0..Len(log)] ==
        IF n = 0 THEN [units |-> Burst, at |-> 0] ELSE Spent(left[n - 1], c, log[n])
  IN  left

\* Creating a bucket at the first request and sweeping it after ten idle minutes
\* is invisible, and one client's requests never change the answer to another:
\* each decision is that of a bucket of the client's own that lived forever.
SweepInvisible ==
  \A i \in 1..Len(log) : log[i].ok = Remembered(log[i].client)[i].ok

=============================================================================
