------------------------------ MODULE Parallel ------------------------------
(***************************************************************************)
(* pkg/compute/vec/matmul_parallel.go and its callers in pkg/compute: loops  *)
(* over rows (or heads) are cut into chunks for a pool of workers that all   *)
(* callers share, and a call returns when its chunks are done.               *)
(*                                                                         *)
(* A loop inside a row is left out: no caller of ParallelForWork has one,    *)
(* and the guard against it (parallel_depth.go) is not part of the model.    *)
(***************************************************************************)
EXTENDS Integers, Sequences, SequencesExt

CONSTANTS
  Callers,        \* goroutines that compute
  Workers,        \* goroutines of the pool
  JobsPerWorker,  \* capacity of the channel, by worker: 4 in the code
  MinItems,       \* shorter loops are not cut: 64 rows, 4 heads
  Sizes,          \* the numbers of items of a call
  Scratches,      \* buffers for the scores of a head
  MaxCalls        \* bound: calls of a caller

ASSUME ParallelAssumption ==
  /\ Callers # {} /\ Workers # {} /\ IsFiniteSet(Workers)
  /\ JobsPerWorker \in Nat \ {0} /\ MinItems \in Nat \ {0} /\ MaxCalls \in Nat
  /\ Sizes \subseteq Nat \ {0} /\ Cardinality(Scratches) >= Cardinality(Workers)

None == [row |-> -1]       \* no error
Failure(row) == [row |-> row]
Idle == [job |-> "none"]

VARIABLES
  call,      \* caller -> what it computes and how far: phase, items, bad rows, next, chunk, calls
  wg,        \* caller -> jobs not done: its WaitGroup
  first,     \* caller -> the error that is kept
  times,     \* caller -> row -> how often it was computed in this call
  queue,     \* poolJobs
  worker,    \* worker -> Idle, or its job, the row it is at and the buffer it holds
  pool       \* the buffers nobody holds: headScoresPool

vars == <<call, wg, first, times, queue, worker, pool>>

NoCall == [phase |-> "idle", items |-> 0, bad |-> {}, next |-> 0, calls |-> 0]

Init ==
  /\ call = [c \in Callers |-> NoCall] /\ wg = [c \in Callers |-> 0] /\ first = [c \in Callers |-> None]
  /\ times = [c \in Callers |-> <<>>] /\ queue = <<>> /\ worker = [w \in Workers |-> Idle] /\ pool = Scratches

(***************************************************************************)
(* The caller                                                               *)
(***************************************************************************)
Rows(items) == 0..(items - 1)
Cut(items) == items >= MinItems /\ Min({Cardinality(Workers), items}) > 1
Chunk(items) == LET workers == Min({Cardinality(Workers), items}) IN (items + workers - 1) \div workers

ChunkEnd(items, from) == Min({from + Chunk(items), items})

\* Mutant: an error is not kept.
NotedNot(kept, error) == kept
\* CompareAndSwap: the first error stays.
Noted(kept, error) == IF kept = None THEN error ELSE kept

CanBegin(c) == call[c].phase # "cutting" /\ call[c].calls < MaxCalls

\* A short loop runs on the caller, up to the row that fails.
Serial(c) ==
  \E items \in Sizes : \E bad \in SUBSET Rows(items) :
    /\ CanBegin(c) /\ ~Cut(items)
    /\ LET end == IF bad = {} THEN items ELSE Min(bad)
       IN  /\ times' = [times EXCEPT ![c] = [r \in Rows(items) |-> IF r <= end THEN 1 ELSE 0]]
           /\ first' = [first EXCEPT ![c] = IF bad = {} THEN None ELSE Failure(end)]
    /\ call' = [call EXCEPT ![c] = [phase |-> "returned", items |-> items, bad |-> bad, next |-> items, calls |-> @.calls + 1]]
    /\ UNCHANGED <<wg, queue, worker, pool>>

ParallelFor(c) ==
  \E items \in Sizes : \E bad \in SUBSET Rows(items) :
    /\ CanBegin(c) /\ Cut(items)
    /\ first' = [first EXCEPT ![c] = None]
    /\ call' = [call EXCEPT ![c] = [phase |-> "cutting", items |-> items, bad |-> bad, next |-> 0, calls |-> @.calls + 1]]
    /\ times' = [times EXCEPT ![c] = [r \in Rows(items) |-> 0]]
    /\ UNCHANGED <<wg, queue, worker, pool>>

\* The send blocks while the channel is full.
Send(c) ==
  /\ call[c].phase = "cutting" /\ call[c].next < call[c].items
  /\ Len(queue) < JobsPerWorker * Cardinality(Workers)
  /\ queue' = Append(queue, [caller |-> c, from |-> call[c].next, to |-> ChunkEnd(call[c].items, call[c].next)])
  /\ wg' = [wg EXCEPT ![c] = @ + 1]
  /\ call' = [call EXCEPT ![c].next = @ + Chunk(call[c].items)]
  /\ UNCHANGED <<first, times, worker, pool>>

\* Mutant: a caller waits until its jobs were taken.
TakenUp(c) == \A i \in DOMAIN queue : queue[i].caller # c
\* wg.Wait
Finished(c) == wg[c] = 0

Return(c) ==
  /\ call[c].phase = "cutting" /\ call[c].next >= call[c].items /\ Finished(c)
  /\ call' = [call EXCEPT ![c].phase = "returned"]
  /\ UNCHANGED <<wg, first, times, queue, worker, pool>>

(***************************************************************************)
(* The workers                                                              *)
(***************************************************************************)
\* Mutant: a buffer that is given out stays in the pool.
GivenOutKept(free, s) == free
GivenOut(free, s) == free \ {s}

\* A worker takes a job, and the job a buffer.
Take(w) ==
  /\ worker[w] = Idle /\ queue # <<>>
  /\ \E s \in pool :
       /\ worker' = [worker EXCEPT ![w] = [job |-> Head(queue), row |-> Head(queue).from, scratch |-> s]]
       /\ pool' = GivenOut(pool, s)
  /\ queue' = Tail(queue)
  /\ UNCHANGED <<call, wg, first, times>>

\* Mutant: a job that fails is never done.
DoneUnlessFailed(count, failed) == IF failed THEN count ELSE count - 1
\* wg.Done is deferred.
Done(count, failed) == count - 1

\* One row; the chunk ends behind its last row or with the one that fails.
Compute(w) ==
  /\ worker[w] # Idle
  /\ LET c == worker[w].job.caller
         r == worker[w].row
         fails == r \in call[c].bad
     IN  /\ times' = [times EXCEPT ![c][r] = @ + 1]
         /\ first' = [first EXCEPT ![c] = IF fails THEN Noted(@, Failure(r)) ELSE @]
         /\ IF fails \/ r + 1 = worker[w].job.to
            THEN /\ wg' = [wg EXCEPT ![c] = Done(@, fails)]
                 /\ pool' = pool \cup {worker[w].scratch}
                 /\ worker' = [worker EXCEPT ![w] = Idle]
            ELSE /\ worker' = [worker EXCEPT ![w].row = r + 1]
                 /\ UNCHANGED <<wg, pool>>
  /\ UNCHANGED <<call, queue>>

Caller(c) == Serial(c) \/ ParallelFor(c) \/ Send(c) \/ Return(c)
Worker(w) == Take(w) \/ Compute(w)
Next == (\E c \in Callers : Caller(c)) \/ (\E w \in Workers : Worker(w))

\* The scheduler of Go runs every goroutine that can run, and a send that waits is
\* served in its turn.
Fairness ==
  /\ \A c \in Callers : SF_vars(Send(c)) /\ WF_vars(Return(c))
  /\ \A w \in Workers : WF_vars(Worker(w))
Spec == Init /\ [][Next]_vars
FairSpec == Spec /\ Fairness

(***************************************************************************)
(* Properties                                                               *)
(***************************************************************************)
Running == {w \in Workers : worker[w] # Idle}
JobsOf(c) == {i \in DOMAIN queue : queue[i].caller = c}
RunningFor(c) == {w \in Running : worker[w].job.caller = c}

\* No row is computed twice in a call, and when the call has returned without an error
\* none was left out (ParallelForWork: the chunks are the rows).
EachRowOnce ==
  \A c \in Callers :
    /\ \A r \in DOMAIN times[c] : times[c][r] <= 1
    /\ call[c].phase = "returned" /\ first[c] = None => \A r \in DOMAIN times[c] : times[c][r] = 1

\* A call fails exactly when a row of it did, with the error of a row that was the first
\* of its chunk, or of a loop that is not cut, to fail (ParallelForRowsErr).
ErrorsAreReturned ==
  \A c \in Callers : call[c].phase = "returned" =>
    IF call[c].bad = {} THEN first[c] = None
    ELSE /\ first[c].row \in call[c].bad
         /\ \A r \in call[c].bad : r < first[c].row =>
              Cut(call[c].items) /\ r \div Chunk(call[c].items) < first[c].row \div Chunk(call[c].items)

\* Nothing of a call that has returned is still to be written: its buffers are free to be
\* used again, whatever other callers have in the pool.
NothingAfterReturn ==
  \A c \in Callers : call[c].phase = "returned" => JobsOf(c) = {} /\ RunningFor(c) = {}

\* A call does what the serial loop does, and is over when it returns.
CallsAreLoops == EachRowOnce /\ NothingAfterReturn

\* Two heads are never computed in the same buffer of scores (attention.go).
ScratchIsPrivate ==
  \A v, w \in Running : worker[v].scratch \notin pool /\ (v # w => worker[v].scratch # worker[w].scratch)

\* Every call returns, however long the queue of the others is.
EveryCallReturns ==
  \A c \in Callers : call[c].phase = "cutting" ~> call[c].phase = "returned"
=============================================================================
