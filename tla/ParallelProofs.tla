-------------------------- MODULE ParallelProofs --------------------------
(***************************************************************************)
(* Proofs about Parallel, for any number of callers, workers, rows, calls   *)
(* and places in the channel: a parallel loop does what the serial loop     *)
(* does and is over when it returns, its error is one of its own rows, and  *)
(* no two heads share a buffer of scores.                                   *)
(***************************************************************************)
EXTENDS Parallel, FiniteSetTheorems, SequenceTheorems, WellFoundedInduction, TLAPS

Job == [caller : Callers, from : Nat, to : Nat]

\* The shape of the state.
Typed ==
  /\ call \in [Callers -> [phase : {"idle", "cutting", "returned"}, items : Nat,
                           bad : SUBSET Nat, next : Nat, calls : Nat]]
  /\ \A c \in Callers : call[c].bad \subseteq Rows(call[c].items)
  /\ wg \in [Callers -> Int]
  /\ first \in [Callers -> [row : Int]]
  /\ times \in [Callers -> UNION {[Rows(n) -> Nat] : n \in Nat}]
  /\ \A c \in Callers : times[c] \in [Rows(call[c].items) -> Nat]
  /\ queue \in Seq(Job)
  /\ worker \in [Workers -> {Idle} \cup [job : Job, row : Nat, scratch : Scratches]]
  /\ pool \subseteq Scratches

\* A job that waits or runs is a chunk that its call has sent; chunks begin at
\* multiples of the size.
Chunked(c, j) ==
  /\ call[c].phase = "cutting"
  /\ j.from < call[c].items
  /\ j.to = ChunkEnd(call[c].items, j.from)
  /\ j.from + Chunk(call[c].items) <= call[c].next
  /\ \E k \in Nat : j.from = k * Chunk(call[c].items)

Apart(i, j) == i.to <= j.from \/ j.to <= i.from

\* The chunks of one call are apart from each other, in the channel and at work.
JobsApart ==
  /\ \A i \in DOMAIN queue : Chunked(queue[i].caller, queue[i])
  /\ \A w \in Running : Chunked(worker[w].job.caller, worker[w].job)
  /\ \A i, j \in DOMAIN queue :
       i # j /\ queue[i].caller = queue[j].caller => Apart(queue[i], queue[j])
  /\ \A i \in DOMAIN queue, w \in Running :
       queue[i].caller = worker[w].job.caller => Apart(queue[i], worker[w].job)
  /\ \A v, w \in Running :
       v # w /\ worker[v].job.caller = worker[w].job.caller => Apart(worker[v].job, worker[w].job)

\* The first rows of the chunks of c that are not done; the WaitGroup counts them.
Open(c) == {queue[i].from : i \in JobsOf(c)} \cup {worker[w].job.from : w \in RunningFor(c)}
Counted == \A c \in Callers : IsFiniteSet(Open(c)) /\ wg[c] = Cardinality(Open(c))

\* Rows still to be computed by a chunk that waits, and by one at work.
InQueue(c, r) == \E i \in JobsOf(c) : r \in queue[i].from..(queue[i].to - 1)
AtWork(c, r) == \E w \in RunningFor(c) : r \in worker[w].row..(worker[w].job.to - 1)

\* A row is computed at most once: not before it was sent, nor while a chunk still has
\* it to do; until an error every row that was sent is done or will be.
RowsDone ==
  \A c \in Callers :
    /\ call[c].phase = "cutting" =>
         /\ Cut(call[c].items)
         /\ \E k \in Nat : call[c].next = k * Chunk(call[c].items)
    /\ call[c].phase = "returned" => call[c].next >= call[c].items
    /\ \A r \in Rows(call[c].items) :
         /\ times[c][r] <= 1
         /\ r >= call[c].next => times[c][r] = 0
         /\ InQueue(c, r) \/ AtWork(c, r) => times[c][r] = 0
         /\ first[c] = None /\ r < call[c].next =>
              (times[c][r] = 1 /\ r \notin call[c].bad) \/ InQueue(c, r) \/ AtWork(c, r)

\* A running chunk is at a row of its own and has met no bad one.
Progress ==
  \A w \in Running :
    /\ worker[w].job.from <= worker[w].row /\ worker[w].row < worker[w].job.to
    /\ \A r \in worker[w].job.from..(worker[w].row - 1) : r \notin call[worker[w].job.caller].bad

\* The error that is kept is of a bad row, the first one of its chunk.
Kept ==
  \A c \in Callers : first[c] # None =>
    /\ first[c].row \in call[c].bad
    /\ \A r \in call[c].bad : r < first[c].row =>
         Cut(call[c].items) /\ r \div Chunk(call[c].items) < first[c].row \div Chunk(call[c].items)

\* The inductive invariant.
IInv == Typed /\ JobsApart /\ Counted /\ RowsDone /\ Progress /\ Kept /\ ScratchIsPrivate

-----------------------------------------------------------------------------
(* Numbers. *)

\* Every non-empty set of naturals has a least element.
LEMMA Least ==
  ASSUME NEW T \in SUBSET Nat, T # {}
  PROVE  \E m \in T : \A y \in T : m <= y
<1>1. PICK x \in T : \A y \in T : ~ (<<y, x>> \in OpToRel(<, Nat))
  BY NatLessThanWellFounded, WFMin, Zenon
<1>2. ASSUME NEW y \in T PROVE x <= y
  <2>1. ~ (<<y, x>> \in OpToRel(<, Nat))
    BY <1>1
  <2>2. ~ (y < x)
    BY <2>1, Zenon DEF OpToRel
  <2> QED BY <2>2
<1> QED BY <1>2

\* Min returns it.
LEMMA MinIsLeast ==
  ASSUME NEW T \in SUBSET Nat, T # {}
  PROVE  Min(T) \in T /\ \A y \in T : Min(T) <= y
<1>1. \E m \in T : \A y \in T : m <= y
  BY Least
<1> QED BY <1>1 DEF Min

\* A loop that is cut has chunks of at least one row.
LEMMA ChunkPositive ==
  ASSUME NEW items \in Nat, Cut(items)
  PROVE  Chunk(items) \in Nat \ {0}
<1> DEFINE w == Min({Cardinality(Workers), items})
<1>1. Cardinality(Workers) \in Nat
  BY FS_CardinalityType, ParallelAssumption
<1>2. w \in Nat /\ w > 1 /\ w <= items
  BY <1>1, MinIsLeast DEF Cut
<1> HIDE DEF w
<1>3. (items + w - 1) \div w >= 1
  <2>1. items + w - 1 >= w
    BY <1>2
  <2> QED BY <1>2, <2>1
<1>4. (items + w - 1) \div w \in Int
  BY <1>2
<1> QED BY <1>3, <1>4 DEF Chunk, w

\* A row before a multiple of n lies in an earlier chunk than one behind it.
LEMMA EarlierChunk ==
  ASSUME NEW n \in Nat \ {0}, NEW k \in Nat, NEW q \in Nat, NEW r \in Nat, q < k * n, k * n <= r
  PROVE  q \div n < r \div n
<1> DEFINE a == q \div n
           b == r \div n
<1>1. a \in Nat /\ b \in Nat
  OBVIOUS
<1>2. a * n <= q /\ r < (b + 1) * n
  OBVIOUS
<1> HIDE DEF a, b
<1>3. a * n < k * n /\ k * n < (b + 1) * n
  BY <1>1, <1>2
<1>4. a < k /\ k < b + 1
  BY <1>1, <1>3
<1> QED BY <1>1, <1>4 DEF a, b

-----------------------------------------------------------------------------
(* Typed states. *)

\* The jobs of the channel and of the workers, and the calls they belong to.
LEMMA Shapes ==
  ASSUME Typed
  PROVE  /\ Len(queue) \in Nat /\ DOMAIN queue = 1..Len(queue)
         /\ \A i \in DOMAIN queue : queue[i] \in Job
         /\ \A w \in Running : worker[w] \in [job : Job, row : Nat, scratch : Scratches]
         /\ \A c \in Callers : call[c].items \in Nat /\ call[c].next \in Nat
  BY LenProperties, ElementOfSeq DEF Typed, Running

\* A chunk ends with the loop, at most one chunk size behind its first row.
LEMMA ChunkEnds ==
  ASSUME NEW items \in Nat, Cut(items), NEW from \in Nat, from < items
  PROVE  /\ ChunkEnd(items, from) \in Nat
         /\ from < ChunkEnd(items, from)
         /\ ChunkEnd(items, from) <= items
         /\ ChunkEnd(items, from) <= from + Chunk(items)
         /\ from + Chunk(items) <= items => ChunkEnd(items, from) = from + Chunk(items)
         /\ items <= from + Chunk(items) => ChunkEnd(items, from) = items
<1>1. Chunk(items) \in Nat \ {0}
  BY ChunkPositive
<1> DEFINE n == from + Chunk(items)
<1>2. n \in Nat /\ n > from
  BY <1>1
<1>3. Min({n, items}) \in {n, items} /\ \A y \in {n, items} : Min({n, items}) <= y
  BY <1>2, MinIsLeast
<1> QED BY <1>2, <1>3 DEF ChunkEnd

\* No call and no chunk: the invariant holds.
LEMMA InitIInv == Init => IInv
<1> SUFFICES ASSUME Init PROVE IInv
  OBVIOUS
<1>1. Typed
  <2>1. <<>> \in [Rows(0) -> Nat]
    <3>1. Rows(0) = {}
      BY DEF Rows
    <3> QED BY <3>1
  <2>2. /\ times \in [Callers -> UNION {[Rows(n) -> Nat] : n \in Nat}]
        /\ \A c \in Callers : times[c] \in [Rows(call[c].items) -> Nat]
    BY <2>1 DEF Init, NoCall
  <2>3. /\ call \in [Callers -> [phase : {"idle", "cutting", "returned"}, items : Nat,
                                 bad : SUBSET Nat, next : Nat, calls : Nat]]
        /\ \A c \in Callers : call[c].bad \subseteq Rows(call[c].items)
    BY DEF Init, NoCall
  <2>4. queue \in Seq(Job)
    BY DEF Init
  <2>5. worker \in [Workers -> {Idle} \cup [job : Job, row : Nat, scratch : Scratches]]
    BY DEF Init
  <2>6. wg \in [Callers -> Int] /\ first \in [Callers -> [row : Int]] /\ pool \subseteq Scratches
    BY DEF Init, None
  <2> QED BY <2>2, <2>3, <2>4, <2>5, <2>6 DEF Typed
<1>2. Running = {} /\ DOMAIN queue = {}
  BY DEF Init, Running
<1>3. \A c \in Callers : JobsOf(c) = {} /\ RunningFor(c) = {} /\ Open(c) = {}
  BY <1>2 DEF JobsOf, RunningFor, Open
<1>4. Counted
  BY <1>3, FS_EmptySet DEF Counted, Init
<1>5. \A c \in Callers : call[c] = NoCall /\ first[c] = None
  BY DEF Init
<1>6. RowsDone
  BY <1>5 DEF RowsDone, NoCall, Rows
<1> QED BY <1>1, <1>2, <1>4, <1>5, <1>6 DEF IInv, JobsApart, Progress, Kept, ScratchIsPrivate

-----------------------------------------------------------------------------
(* A caller begins a loop: none of its jobs is left from the one before. *)

\* Jobs that wait or run belong to calls that are under way.
LEMMA NoJobsLeft ==
  ASSUME JobsApart, NEW c \in Callers, call[c].phase # "cutting"
  PROVE  JobsOf(c) = {} /\ RunningFor(c) = {}
  BY DEF JobsApart, Chunked, JobsOf, RunningFor

\* What another call does leaves the jobs alone, and what is counted.
LEMMA OtherCallsJobs ==
  ASSUME IInv, NEW c \in Callers, call[c].phase # "cutting",
         UNCHANGED <<wg, queue, worker, pool>>,
         \A d \in Callers \ {c} : call'[d] = call[d]
  PROVE  JobsApart' /\ Counted' /\ Progress' /\ ScratchIsPrivate'
<1> USE DEF IInv
<1>1. \A d \in Callers : JobsOf(d)' = JobsOf(d) /\ RunningFor(d)' = RunningFor(d) /\ Open(d)' = Open(d)
  BY DEF JobsOf, RunningFor, Running, Open
<1>2. Running' = Running
  BY DEF Running
<1>3. \A i \in DOMAIN queue : queue[i].caller \in Callers \ {c}
  BY NoJobsLeft, Shapes DEF JobsOf, Job
<1>4. \A w \in Running : worker[w].job.caller \in Callers \ {c}
  BY NoJobsLeft, Shapes DEF RunningFor, Job
<1>5. JobsApart'
  BY <1>2, <1>3, <1>4 DEF JobsApart, Chunked
<1>6. Progress'
  BY <1>2, <1>4 DEF Progress
<1>7. Counted'
  BY <1>1 DEF Counted
<1>8. ScratchIsPrivate'
  BY <1>2 DEF ScratchIsPrivate
<1> QED BY <1>5, <1>6, <1>7, <1>8

\* The entries of a typed state.
LEMMA CallShape ==
  ASSUME Typed, NEW c \in Callers
  PROVE  /\ call[c].items \in Nat /\ call[c].next \in Nat /\ call[c].calls \in Nat
         /\ call[c].bad \subseteq Rows(call[c].items)
         /\ times[c] \in [Rows(call[c].items) -> Nat]
         /\ \A r \in Rows(call[c].items) : r \in Nat /\ times[c][r] \in Nat
  BY DEF Typed, Rows

\* A loop that is not worth cutting runs in its caller.
LEMMA SerialStep == ASSUME IInv, NEW c \in Callers, Serial(c) PROVE IInv'
<1>0. PICK items \in Sizes : \E bad \in SUBSET Rows(items) :
        /\ call[c].phase # "cutting" /\ ~Cut(items)
        /\ LET end == IF bad = {} THEN items ELSE Min(bad)
           IN  /\ times' = [times EXCEPT ![c] = [r \in Rows(items) |-> IF r <= end THEN 1 ELSE 0]]
               /\ first' = [first EXCEPT ![c] = IF bad = {} THEN None ELSE Failure(end)]
        /\ call' = [call EXCEPT ![c] = [phase |-> "returned", items |-> items, bad |-> bad, next |-> items,
                                        calls |-> @.calls + 1]]
        /\ UNCHANGED <<wg, queue, worker, pool>>
  BY DEF Serial, CanBegin
<1>1. PICK bad \in SUBSET Rows(items) :
        /\ call[c].phase # "cutting" /\ ~Cut(items)
        /\ LET end == IF bad = {} THEN items ELSE Min(bad)
           IN  /\ times' = [times EXCEPT ![c] = [r \in Rows(items) |-> IF r <= end THEN 1 ELSE 0]]
               /\ first' = [first EXCEPT ![c] = IF bad = {} THEN None ELSE Failure(end)]
        /\ call' = [call EXCEPT ![c] = [phase |-> "returned", items |-> items, bad |-> bad, next |-> items,
                                        calls |-> @.calls + 1]]
        /\ UNCHANGED <<wg, queue, worker, pool>>
  BY <1>0
<1> DEFINE end == IF bad = {} THEN items ELSE Min(bad)
           done == [r \in Rows(items) |-> IF r <= end THEN 1 ELSE 0]
<1>2. items \in Nat /\ Rows(items) \subseteq Nat /\ bad \subseteq Nat
  BY ParallelAssumption DEF Rows
<1>3. end \in Nat /\ (bad = {} => end = items) /\ (bad # {} => end \in bad /\ \A r \in bad : end <= r)
  BY <1>2, MinIsLeast
<1>4. times' = [times EXCEPT ![c] = done]
      /\ first' = [first EXCEPT ![c] = IF bad = {} THEN None ELSE Failure(end)]
  BY <1>1
<1> HIDE DEF end
<1>5. done \in [Rows(items) -> Nat]
  BY <1>2
<1>6. call[c].calls \in Nat
  BY CallShape DEF IInv
<1>7. times'[c] = done /\ first'[c] = (IF bad = {} THEN None ELSE Failure(end))
      /\ call'[c].phase = "returned" /\ call'[c].items = items /\ call'[c].bad = bad /\ call'[c].next = items
  BY <1>1, <1>4 DEF IInv, Typed
<1>8. \A d \in Callers \ {c} : call'[d] = call[d] /\ times'[d] = times[d] /\ first'[d] = first[d]
  BY <1>1, <1>4 DEF IInv, Typed
<1>9. Typed'
  <2>1. call' \in [Callers -> [phase : {"idle", "cutting", "returned"}, items : Nat,
                               bad : SUBSET Nat, next : Nat, calls : Nat]]
    BY <1>1, <1>2, <1>6 DEF IInv, Typed
  <2>2. first' \in [Callers -> [row : Int]]
    <3>1. None \in [row : Int] /\ Failure(end) \in [row : Int]
      BY <1>3 DEF None, Failure
    <3> QED BY <1>4, <3>1 DEF IInv, Typed
  <2>3. times' \in [Callers -> UNION {[Rows(n) -> Nat] : n \in Nat}]
    BY <1>4, <1>5, <1>2 DEF IInv, Typed
  <2>4. \A d \in Callers : call'[d].bad \subseteq Rows(call'[d].items)
                           /\ times'[d] \in [Rows(call'[d].items) -> Nat]
    BY <1>5, <1>7, <1>8 DEF IInv, Typed
  <2> QED BY <1>1, <2>1, <2>2, <2>3, <2>4 DEF IInv, Typed
<1>10. JobsApart' /\ Counted' /\ Progress' /\ ScratchIsPrivate'
  BY <1>1, <1>8, OtherCallsJobs
<1>11. \A d \in Callers, r \in Nat : InQueue(d, r)' = InQueue(d, r) /\ AtWork(d, r)' = AtWork(d, r)
  BY <1>1 DEF InQueue, AtWork, JobsOf, RunningFor, Running
<1>12. RowsDone'
  <2>1. JobsOf(c) = {} /\ RunningFor(c) = {}
    BY <1>1, NoJobsLeft DEF IInv
  <2>2. \A r \in Nat : ~InQueue(c, r) /\ ~AtWork(c, r)
    BY <2>1 DEF InQueue, AtWork
  <2>3. \A r \in Rows(items) : r < items /\ times'[c][r] = IF r <= end THEN 1 ELSE 0
    BY <1>2, <1>7 DEF Rows
  <2>4. first'[c] = None => bad = {}
    BY <1>3, <1>7 DEF None, Failure
  <2>5. \A r \in Rows(items) : first'[c] = None => times'[c][r] = 1 /\ r \notin bad
    BY <2>3, <2>4, <1>2, <1>3
  <2>6. \A r \in Rows(items) : times'[c][r] <= 1 /\ ~ (r >= items)
    BY <2>3, <1>2
  <2>7. ASSUME NEW d \in Callers \ {c}, NEW r \in Rows(call[d].items)
        PROVE  /\ InQueue(d, r)' = InQueue(d, r) /\ AtWork(d, r)' = AtWork(d, r)
    BY <1>11 DEF Rows
  <2>8. \A r \in Rows(items) : ~InQueue(c, r)' /\ ~AtWork(c, r)'
    BY <2>2, <1>11, <1>2
  <2> QED BY <1>2, <1>7, <1>8, <2>5, <2>6, <2>7, <2>8 DEF IInv, RowsDone
<1>13. Kept'
  <2>1. first'[c] # None => bad # {} /\ first'[c].row = end
    BY <1>7 DEF None, Failure
  <2>2. first'[c] # None => first'[c].row \in bad /\ \A r \in bad : ~ (r < first'[c].row)
    BY <2>1, <1>2, <1>3
  <2> QED BY <1>7, <1>8, <2>2 DEF IInv, Kept
<1> QED BY <1>9, <1>10, <1>12, <1>13 DEF IInv

\* A loop is cut: its caller begins to send chunks.
LEMMA ParallelForStep == ASSUME IInv, NEW c \in Callers, ParallelFor(c) PROVE IInv'
<1>0. PICK items \in Sizes : \E bad \in SUBSET Rows(items) :
        /\ call[c].phase # "cutting" /\ Cut(items)
        /\ first' = [first EXCEPT ![c] = None]
        /\ call' = [call EXCEPT ![c] = [phase |-> "cutting", items |-> items, bad |-> bad, next |-> 0,
                                        calls |-> @.calls + 1]]
        /\ times' = [times EXCEPT ![c] = [r \in Rows(items) |-> 0]]
        /\ UNCHANGED <<wg, queue, worker, pool>>
  BY DEF ParallelFor, CanBegin
<1>1. PICK bad \in SUBSET Rows(items) :
        /\ call[c].phase # "cutting" /\ Cut(items)
        /\ first' = [first EXCEPT ![c] = None]
        /\ call' = [call EXCEPT ![c] = [phase |-> "cutting", items |-> items, bad |-> bad, next |-> 0,
                                        calls |-> @.calls + 1]]
        /\ times' = [times EXCEPT ![c] = [r \in Rows(items) |-> 0]]
        /\ UNCHANGED <<wg, queue, worker, pool>>
  BY <1>0
<1>2. items \in Nat /\ Rows(items) \subseteq Nat /\ bad \subseteq Nat
  BY ParallelAssumption DEF Rows
<1>3. [r \in Rows(items) |-> 0] \in [Rows(items) -> Nat]
  OBVIOUS
<1>4. call[c].calls \in Nat
  BY CallShape DEF IInv
<1>5. /\ times'[c] = [r \in Rows(items) |-> 0] /\ first'[c] = None
      /\ call'[c].phase = "cutting" /\ call'[c].items = items /\ call'[c].bad = bad /\ call'[c].next = 0
  BY <1>1 DEF IInv, Typed
<1>6. \A d \in Callers \ {c} : call'[d] = call[d] /\ times'[d] = times[d] /\ first'[d] = first[d]
  BY <1>1 DEF IInv, Typed
<1>7. Typed'
  <2>1. call' \in [Callers -> [phase : {"idle", "cutting", "returned"}, items : Nat,
                               bad : SUBSET Nat, next : Nat, calls : Nat]]
    BY <1>1, <1>2, <1>4 DEF IInv, Typed
  <2>2. first' \in [Callers -> [row : Int]]
    BY <1>1 DEF IInv, Typed, None
  <2>3. times' \in [Callers -> UNION {[Rows(n) -> Nat] : n \in Nat}]
    BY <1>1, <1>2, <1>3 DEF IInv, Typed
  <2>4. \A d \in Callers : call'[d].bad \subseteq Rows(call'[d].items)
                           /\ times'[d] \in [Rows(call'[d].items) -> Nat]
    BY <1>3, <1>5, <1>6 DEF IInv, Typed
  <2> QED BY <1>1, <2>1, <2>2, <2>3, <2>4 DEF IInv, Typed
<1>8. JobsApart' /\ Counted' /\ Progress' /\ ScratchIsPrivate'
  BY <1>1, <1>6, OtherCallsJobs
<1>9. RowsDone'
  <2>1. \A d \in Callers, r \in Nat : InQueue(d, r)' = InQueue(d, r) /\ AtWork(d, r)' = AtWork(d, r)
    BY <1>1 DEF InQueue, AtWork, JobsOf, RunningFor, Running
  <2>2. ASSUME NEW d \in Callers \ {c}, NEW r \in Rows(call[d].items)
        PROVE  /\ InQueue(d, r)' = InQueue(d, r) /\ AtWork(d, r)' = AtWork(d, r)
    BY <2>1 DEF Rows
  <2>3. \A r \in Rows(items) : times'[c][r] = 0 /\ ~ (r < 0)
    BY <1>2, <1>5
  <2>4. 0 \in Nat /\ 0 = 0 * Chunk(items)
    BY <1>1, <1>2, ChunkPositive
  <2> QED BY <1>1, <1>5, <1>6, <2>2, <2>3, <2>4 DEF IInv, RowsDone
<1>10. Kept'
  BY <1>5, <1>6 DEF IInv, Kept
<1> QED BY <1>7, <1>8, <1>9, <1>10 DEF IInv

\* A caller that returns has no job left: the WaitGroup counts the chunks.
LEMMA ReturnStep == ASSUME IInv, NEW c \in Callers, Return(c) PROVE IInv'
<1>1. Open(c) = {}
  BY FS_EmptySet DEF IInv, Return, Finished, Counted
<1>2. JobsOf(c) = {} /\ RunningFor(c) = {}
  BY <1>1 DEF Open
<1>3. /\ call'[c].phase = "returned" /\ call'[c].items = call[c].items
      /\ call'[c].bad = call[c].bad /\ call'[c].next = call[c].next
  BY DEF IInv, Typed, Return
<1>4. \A d \in Callers \ {c} : call'[d] = call[d]
  BY DEF IInv, Typed, Return
<1>5. Typed'
  BY DEF IInv, Typed, Return
<1>6. \A d \in Callers : JobsOf(d)' = JobsOf(d) /\ RunningFor(d)' = RunningFor(d) /\ Open(d)' = Open(d)
  BY DEF JobsOf, RunningFor, Running, Open, Return
<1>7. Running' = Running /\ queue' = queue /\ worker' = worker /\ pool' = pool /\ wg' = wg
      /\ first' = first /\ times' = times
  BY DEF Running, Return
<1>8. \A i \in DOMAIN queue : queue[i].caller \in Callers \ {c}
  BY <1>2, Shapes DEF IInv, JobsOf, Job
<1>9. \A w \in Running : worker[w].job.caller \in Callers \ {c}
  BY <1>2, Shapes DEF IInv, RunningFor, Job
<1>10. JobsApart'
  BY <1>4, <1>7, <1>8, <1>9 DEF IInv, JobsApart, Chunked
<1>11. Counted'
  BY <1>6, <1>7 DEF IInv, Counted
<1>12. Progress'
  BY <1>3, <1>4, <1>7, <1>9 DEF IInv, Progress
<1>13. RowsDone'
  <2>1. \A d \in Callers, r \in Nat : InQueue(d, r)' = InQueue(d, r) /\ AtWork(d, r)' = AtWork(d, r)
    BY <1>6, <1>7 DEF InQueue, AtWork
  <2>2. \A d \in Callers : /\ call'[d].items = call[d].items /\ call'[d].next = call[d].next
                           /\ call'[d].bad = call[d].bad
    BY <1>3, <1>4
  <2>3. \A d \in Callers : \A r \in Rows(call[d].items) :
          InQueue(d, r)' = InQueue(d, r) /\ AtWork(d, r)' = AtWork(d, r)
    BY <2>1 DEF Rows
  <2>4. call[c].next >= call[c].items
    BY DEF Return
  <2>5. \A d \in Callers : call'[d].phase = "cutting" => call[d].phase = "cutting"
    BY <1>3, <1>4
  <2>6. \A d \in Callers : call'[d].phase = "returned" => call[d].next >= call[d].items
    BY <2>4, <1>4 DEF IInv, RowsDone
  <2> QED BY <1>7, <2>2, <2>3, <2>5, <2>6 DEF IInv, RowsDone
<1>14. Kept'
  <2>1. \A d \in Callers : call'[d].items = call[d].items /\ call'[d].bad = call[d].bad
    BY <1>3, <1>4
  <2> QED BY <2>1, <1>7 DEF IInv, Kept
<1>15. ScratchIsPrivate'
  BY <1>7 DEF IInv, ScratchIsPrivate
<1> QED BY <1>5, <1>10, <1>11, <1>12, <1>13, <1>14, <1>15 DEF IInv

-----------------------------------------------------------------------------
(* A caller sends the next chunk. *)

\* An end of a chunk that was sent lies before what is sent next.
LEMMA ChunkedEnds ==
  ASSUME Typed, RowsDone, NEW j \in Job, Chunked(j.caller, j)
  PROVE  /\ j.from < j.to /\ j.to <= call[j.caller].items /\ j.to <= call[j.caller].next
         /\ j.to <= j.from + Chunk(call[j.caller].items)
         /\ j.from < call[j.caller].next
<1> DEFINE c == j.caller
<1>1. c \in Callers /\ j.from \in Nat
  BY DEF Job
<1>2. call[c].items \in Nat /\ call[c].next \in Nat /\ Cut(call[c].items)
  BY <1>1, CallShape DEF RowsDone, Chunked
<1>3. Chunk(call[c].items) \in Nat \ {0}
  BY <1>2, ChunkPositive
<1>4. /\ ChunkEnd(call[c].items, j.from) \in Nat
      /\ j.from < ChunkEnd(call[c].items, j.from)
      /\ ChunkEnd(call[c].items, j.from) <= call[c].items
      /\ ChunkEnd(call[c].items, j.from) <= j.from + Chunk(call[c].items)
  BY <1>1, <1>2, ChunkEnds DEF Chunked
<1> QED BY <1>1, <1>2, <1>3, <1>4 DEF Chunked

\* A chunk is sent: it is apart from those of the call sent before.
LEMMA SendStep == ASSUME IInv, NEW c \in Callers, Send(c) PROVE IInv'
<1> DEFINE n == Chunk(call[c].items)
           end == ChunkEnd(call[c].items, call[c].next)
           chunk == [caller |-> c, from |-> call[c].next, to |-> end]
           last == Len(queue) + 1
<1>1. /\ call[c].phase = "cutting" /\ call[c].next < call[c].items
      /\ queue' = Append(queue, chunk)
      /\ wg' = [wg EXCEPT ![c] = @ + 1]
      /\ call' = [call EXCEPT ![c].next = @ + n]
      /\ UNCHANGED <<first, times, worker, pool>>
  BY DEF Send
<1>2. /\ call[c].items \in Nat /\ call[c].next \in Nat /\ Cut(call[c].items)
      /\ \E k \in Nat : call[c].next = k * n
  BY <1>1, CallShape DEF IInv, RowsDone
<1>3. n \in Nat \ {0}
  BY <1>2, ChunkPositive
<1>4. /\ end \in Nat /\ call[c].next < end /\ end <= call[c].items /\ end <= call[c].next + n
      /\ (call[c].next + n <= call[c].items => end = call[c].next + n)
      /\ (call[c].items <= call[c].next + n => end = call[c].items)
  BY <1>1, <1>2, ChunkEnds
<1> HIDE DEF n, end
<1>5. PICK job \in Job : queue' = Append(queue, job) /\ job.caller = c /\ job.from = call[c].next /\ job.to = end
  BY <1>1, <1>2, <1>4 DEF Job
<1> HIDE DEF chunk
<1>6. queue \in Seq(Job) /\ Len(queue) \in Nat
  BY LenProperties DEF IInv, Typed
<1>7. /\ queue' \in Seq(Job) /\ Len(queue') = last /\ DOMAIN queue' = 1..last
      /\ \A i \in 1..Len(queue) : queue'[i] = queue[i]
      /\ queue'[last] = job
  BY <1>5, <1>6, AppendProperties, LenProperties
<1>8. DOMAIN queue = 1..Len(queue) /\ \A i \in DOMAIN queue : queue[i] \in Job
  BY Shapes DEF IInv
<1>9. DOMAIN queue' = DOMAIN queue \cup {last} /\ last \notin DOMAIN queue
  BY <1>6, <1>7, <1>8
<1>10. Running' = Running /\ worker' = worker /\ \A d \in Callers : RunningFor(d)' = RunningFor(d)
  BY <1>1 DEF Running, RunningFor
<1>11. /\ call'[c].phase = "cutting" /\ call'[c].items = call[c].items
       /\ call'[c].bad = call[c].bad /\ call'[c].next = call[c].next + n
  BY <1>1 DEF IInv, Typed
<1>12. \A d \in Callers \ {c} : call'[d] = call[d]
  BY <1>1 DEF IInv, Typed
<1>13. Typed'
  <2>1. call' \in [Callers -> [phase : {"idle", "cutting", "returned"}, items : Nat,
                               bad : SUBSET Nat, next : Nat, calls : Nat]]
    <3>1. call \in [Callers -> [phase : {"idle", "cutting", "returned"}, items : Nat,
                                bad : SUBSET Nat, next : Nat, calls : Nat]]
      BY DEF IInv, Typed
    <3>2. call[c].next + n \in Nat
      BY <1>2, <1>3
    <3>3. [call[c] EXCEPT !.next = call[c].next + n]
            \in [phase : {"idle", "cutting", "returned"}, items : Nat, bad : SUBSET Nat, next : Nat, calls : Nat]
      BY <3>1, <3>2
    <3>4. call' = [call EXCEPT ![c] = [call[c] EXCEPT !.next = call[c].next + n]]
      BY <1>1, <3>1
    <3> QED BY <3>1, <3>3, <3>4
  <2>2. wg' \in [Callers -> Int]
    BY <1>1 DEF IInv, Typed
  <2>3. \A d \in Callers : call'[d].items = call[d].items /\ call'[d].bad = call[d].bad
    BY <1>11, <1>12
  <2> QED BY <1>1, <1>7, <2>1, <2>2, <2>3 DEF IInv, Typed
\* The new job and those before it.
<1>14. Chunked(c, job)'
  BY <1>1, <1>2, <1>3, <1>5, <1>11 DEF Chunked, n, end
<1>15. ASSUME NEW j \in Job, Chunked(j.caller, j)
       PROVE  Chunked(j.caller, j)' /\ (j.caller = c => Apart(j, job) /\ Apart(job, j) /\ j.from < job.from)
  <2>1. CASE j.caller = c
    <3>1. j.from \in Nat
      BY DEF Job
    <3>2. j.to <= call[c].next /\ j.from < call[c].next
      BY <2>1, <1>15, ChunkedEnds DEF IInv
    <3>3. Chunked(c, j)'
      BY <2>1, <1>15, <1>2, <1>3, <1>11, <3>1 DEF Chunked, n
    <3> QED BY <2>1, <3>2, <3>3, <1>5 DEF Apart
  <2>2. CASE j.caller # c
    <3>1. j.caller \in Callers \ {c}
      BY <2>2 DEF Job
    <3> QED BY <2>2, <3>1, <1>12, <1>15 DEF Chunked
  <2> QED BY <2>1, <2>2
<1>16. \A w \in Running : worker[w].job \in Job
  BY Shapes DEF IInv
<1>17. \A i \in DOMAIN queue : queue'[i] = queue[i]
  BY <1>7, <1>8
<1>18. JobsApart'
  <2>1. \A i \in DOMAIN queue' : Chunked(queue[i].caller, queue[i])'
    BY <1>5, <1>7, <1>8, <1>9, <1>14, <1>15, <1>17 DEF IInv, JobsApart
  <2>2. \A w \in Running' : Chunked(worker[w].job.caller, worker[w].job)'
    BY <1>10, <1>15, <1>16 DEF IInv, JobsApart
  <2>3. ASSUME NEW i \in DOMAIN queue', NEW k \in DOMAIN queue', i # k, queue'[i].caller = queue'[k].caller
        PROVE  Apart(queue'[i], queue'[k])
    <3>1. CASE i \in DOMAIN queue /\ k \in DOMAIN queue
      BY <2>3, <3>1, <1>17 DEF IInv, JobsApart
    <3>2. CASE i = last /\ k \in DOMAIN queue
      BY <2>3, <3>2, <1>5, <1>7, <1>8, <1>15, <1>17 DEF IInv, JobsApart
    <3>3. CASE k = last /\ i \in DOMAIN queue
      BY <2>3, <3>3, <1>5, <1>7, <1>8, <1>15, <1>17 DEF IInv, JobsApart
    <3> QED BY <2>3, <3>1, <3>2, <3>3, <1>9
  <2>4. ASSUME NEW i \in DOMAIN queue', NEW w \in Running', queue'[i].caller = worker'[w].job.caller
        PROVE  Apart(queue'[i], worker'[w].job)
    <3>1. CASE i \in DOMAIN queue
      BY <2>4, <3>1, <1>10, <1>17 DEF IInv, JobsApart
    <3>2. CASE i = last
      BY <2>4, <3>2, <1>5, <1>7, <1>10, <1>15, <1>16 DEF IInv, JobsApart
    <3> QED BY <2>4, <3>1, <3>2, <1>9
  <2>5. \A v, w \in Running' :
          v # w /\ worker'[v].job.caller = worker'[w].job.caller => Apart(worker'[v].job, worker'[w].job)
    BY <1>10 DEF IInv, JobsApart
  <2> QED BY <2>1, <2>2, <2>3, <2>4, <2>5 DEF JobsApart, Apart
<1>19. JobsOf(c)' = JobsOf(c) \cup {last} /\ \A d \in Callers \ {c} : JobsOf(d)' = JobsOf(d)
  BY <1>5, <1>7, <1>9, <1>17 DEF JobsOf
<1>20. Open(c)' = Open(c) \cup {call[c].next}
  <2>1. {queue'[i].from : i \in JobsOf(c) \cup {last}} = {queue[i].from : i \in JobsOf(c)} \cup {call[c].next}
    BY <1>5, <1>7, <1>17 DEF JobsOf
  <2> QED BY <2>1, <1>10, <1>19 DEF Open
<1>21. call[c].next \notin Open(c)
  <2>1. \A i \in JobsOf(c) : queue[i].from < call[c].next
    BY <1>5, <1>8, <1>15 DEF JobsOf, IInv, JobsApart
  <2>2. \A w \in RunningFor(c) : worker[w].job.from < call[c].next
    BY <1>5, <1>15, <1>16 DEF RunningFor, IInv, JobsApart
  <2> QED BY <2>1, <2>2, <1>2 DEF Open
<1>22. Counted'
  <2>1. IsFiniteSet(Open(c)') /\ wg'[c] = Cardinality(Open(c)')
    <3>1. IsFiniteSet(Open(c)) /\ wg[c] = Cardinality(Open(c))
      BY DEF IInv, Counted
    <3>2. IsFiniteSet(Open(c) \cup {call[c].next})
          /\ Cardinality(Open(c) \cup {call[c].next}) = Cardinality(Open(c)) + 1
      BY <3>1, <1>21, FS_AddElement
    <3>3. wg'[c] = wg[c] + 1
      BY <1>1 DEF IInv, Typed
    <3> QED BY <3>1, <3>2, <3>3, <1>20
  <2>2. ASSUME NEW d \in Callers \ {c} PROVE Open(d)' = Open(d) /\ wg'[d] = wg[d]
    <3>1. {queue'[i].from : i \in JobsOf(d)} = {queue[i].from : i \in JobsOf(d)}
      BY <1>17 DEF JobsOf
    <3>2. Open(d)' = Open(d)
      BY <3>1, <1>10, <1>19 DEF Open
    <3> QED BY <3>2, <1>1 DEF IInv, Typed
  <2> QED BY <2>1, <2>2 DEF IInv, Counted
<1>23. \A d \in Callers, r \in Nat : AtWork(d, r)' = AtWork(d, r)
  BY <1>10 DEF AtWork
<1>24. \A d \in Callers \ {c}, r \in Nat : InQueue(d, r)' = InQueue(d, r)
  BY <1>17, <1>19 DEF InQueue, JobsOf
<1>25. \A r \in Nat : InQueue(c, r)' <=> InQueue(c, r) \/ r \in call[c].next..(end - 1)
  BY <1>5, <1>7, <1>17, <1>19 DEF InQueue, JobsOf
<1>26. RowsDone'
  <2>1. ASSUME NEW d \in Callers \ {c}
        PROVE  \A r \in Rows(call[d].items) : InQueue(d, r)' = InQueue(d, r) /\ AtWork(d, r)' = AtWork(d, r)
    BY <1>23, <1>24 DEF Rows
  <2>2. \E k \in Nat : call[c].next + n = k * n
    <3>1. PICK k \in Nat : call[c].next = k * n
      BY <1>2
    <3>2. call[c].next + n = (k + 1) * n /\ k + 1 \in Nat
      BY <3>1, <1>3
    <3> QED BY <3>2
  <2>3. ASSUME NEW r \in Rows(call[c].items)
        PROVE  /\ times'[c][r] <= 1
               /\ r >= call[c].next + n => times'[c][r] = 0
               /\ InQueue(c, r)' \/ AtWork(c, r)' => times'[c][r] = 0
               /\ first'[c] = None /\ r < call[c].next + n =>
                    (times'[c][r] = 1 /\ r \notin call[c].bad) \/ InQueue(c, r)' \/ AtWork(c, r)'
    <3>1. r \in Nat /\ r < call[c].items
      BY <1>2 DEF Rows
    <3>2. (InQueue(c, r)' <=> InQueue(c, r) \/ r \in call[c].next..(end - 1)) /\ (AtWork(c, r)' <=> AtWork(c, r))
      BY <3>1, <1>23, <1>25
    <3>3. r \in call[c].next..(end - 1) <=> r >= call[c].next /\ r < call[c].next + n
      BY <3>1, <1>2, <1>3, <1>4
    <3>4. /\ times[c][r] <= 1
          /\ r >= call[c].next => times[c][r] = 0
          /\ InQueue(c, r) \/ AtWork(c, r) => times[c][r] = 0
          /\ first[c] = None /\ r < call[c].next =>
               (times[c][r] = 1 /\ r \notin call[c].bad) \/ InQueue(c, r) \/ AtWork(c, r)
      BY DEF IInv, RowsDone
    <3>5. times' = times /\ first' = first
      BY <1>1
    <3>6. CASE r < call[c].next
      <4>1. ~ (r >= call[c].next + n) /\ ~ (r \in call[c].next..(end - 1))
        BY <3>1, <3>3, <3>6, <1>2, <1>3
      <4> QED BY <3>2, <3>4, <3>5, <3>6, <4>1
    <3>7. CASE r >= call[c].next
      <4>1. times[c][r] = 0
        BY <3>4, <3>7
      <4>2. r < call[c].next + n => InQueue(c, r)'
        BY <3>2, <3>3, <3>7
      <4> QED BY <4>1, <4>2, <3>5
    <3> QED BY <3>1, <3>6, <3>7, <1>2
  <2> QED BY <1>1, <1>2, <1>11, <1>12, <2>1, <2>2, <2>3 DEF IInv, RowsDone, n
<1>27. Progress'
  <2>1. \A w \in Running : call'[worker[w].job.caller].bad = call[worker[w].job.caller].bad
    BY <1>11, <1>12, <1>16 DEF Job
  <2> QED BY <2>1, <1>10 DEF IInv, Progress
<1>28. Kept'
  <2>1. \A d \in Callers : call'[d].items = call[d].items /\ call'[d].bad = call[d].bad
    BY <1>11, <1>12
  <2> QED BY <2>1, <1>1 DEF IInv, Kept
<1>29. ScratchIsPrivate'
  BY <1>1, <1>10 DEF IInv, ScratchIsPrivate
<1> QED BY <1>13, <1>18, <1>22, <1>26, <1>27, <1>28, <1>29 DEF IInv

-----------------------------------------------------------------------------
(* A worker takes the job that waits longest. *)

\* A worker takes a chunk, and a buffer of scores that nobody uses.
LEMMA TakeStep == ASSUME IInv, NEW w \in Workers, Take(w) PROVE IInv'
<1>1. PICK s \in pool :
        /\ worker[w] = Idle /\ queue # <<>>
        /\ worker' = [worker EXCEPT ![w] = [job |-> Head(queue), row |-> Head(queue).from, scratch |-> s]]
        /\ pool' = pool \ {s}
        /\ queue' = Tail(queue)
        /\ UNCHANGED <<call, wg, first, times>>
  BY DEF Take, GivenOut
<1>2. /\ queue \in Seq(Job) /\ Len(queue) \in Nat /\ DOMAIN queue = 1..Len(queue) /\ Len(queue) > 0
      /\ \A i \in DOMAIN queue : queue[i] \in Job
  BY <1>1, Shapes, EmptySeq, LenProperties DEF IInv, Typed
<1>3. PICK job \in Job : job = Head(queue) /\ job = queue[1]
  BY <1>1, <1>2, HeadTailProperties
<1>4. /\ queue' \in Seq(Job) /\ Len(queue') = Len(queue) - 1 /\ DOMAIN queue' = 1..(Len(queue) - 1)
      /\ \A i \in DOMAIN queue' : i + 1 \in DOMAIN queue /\ queue'[i] = queue[i + 1]
  BY <1>1, <1>2, HeadTailProperties, LenProperties
<1>5. \A i \in DOMAIN queue : i = 1 \/ (i - 1 \in DOMAIN queue' /\ queue'[i - 1] = queue[i])
  BY <1>2, <1>4
<1>6. s \in Scratches /\ job.from \in Nat
  BY DEF IInv, Typed, Job
<1> DEFINE taken == [job |-> job, row |-> job.from, scratch |-> s]
<1>7. worker' = [worker EXCEPT ![w] = taken] /\ taken \in [job : Job, row : Nat, scratch : Scratches]
  BY <1>1, <1>3, <1>6
<1>8. worker'[w] = taken /\ \A v \in Workers \ {w} : worker'[v] = worker[v]
  BY <1>7 DEF IInv, Typed
<1>9. taken # Idle
  <2>1. DOMAIN taken # DOMAIN Idle
    BY DEF Idle
  <2> QED BY <2>1
<1>10. Running' = Running \cup {w} /\ w \notin Running
  BY <1>1, <1>8, <1>9 DEF Running
<1>11. \A v \in Running : worker'[v] = worker[v]
  BY <1>8, <1>10 DEF Running
<1>12. worker'[w].job = job /\ worker'[w].row = job.from /\ worker'[w].scratch = s
  BY <1>8
<1> HIDE DEF taken
<1>13. call' = call /\ wg' = wg /\ first' = first /\ times' = times
  BY <1>1
<1>14. Typed'
  BY <1>1, <1>4, <1>7, <1>13 DEF IInv, Typed
<1>15. \A j \in Job : Chunked(j.caller, j)' = Chunked(j.caller, j)
  BY <1>13 DEF Chunked
<1>16. 1 \in DOMAIN queue
  BY <1>2
<1>17. JobsApart'
  <2>1. \A i \in DOMAIN queue' : Chunked(queue[i].caller, queue[i])'
    <3> SUFFICES ASSUME NEW i \in DOMAIN queue' PROVE Chunked(queue[i].caller, queue[i])'
      OBVIOUS
    <3>1. Chunked(queue[i + 1].caller, queue[i + 1])
      BY <1>4 DEF IInv, JobsApart
    <3>2. queue'[i] = queue[i + 1]
      BY <1>4
    <3> QED BY <3>1, <3>2, <1>13 DEF Chunked
  <2>2. \A v \in Running' : Chunked(worker[v].job.caller, worker[v].job)'
    <3>1. Chunked(job.caller, job)
      BY <1>3, <1>16 DEF IInv, JobsApart
    <3>2. Chunked(worker[w].job.caller, worker[w].job)'
      BY <3>1, <1>12, <1>13 DEF Chunked
    <3>3. ASSUME NEW v \in Running PROVE Chunked(worker[v].job.caller, worker[v].job)'
      <4>1. Chunked(worker[v].job.caller, worker[v].job)
        BY DEF IInv, JobsApart
      <4> QED BY <4>1, <1>11, <1>13 DEF Chunked
    <3> QED BY <3>2, <3>3, <1>10
  <2>3. \A i, k \in DOMAIN queue' :
          i # k /\ queue'[i].caller = queue'[k].caller => Apart(queue'[i], queue'[k])
    <3> SUFFICES ASSUME NEW i \in DOMAIN queue', NEW k \in DOMAIN queue', i # k, queue'[i].caller = queue'[k].caller
                 PROVE  Apart(queue'[i], queue'[k])
      OBVIOUS
    <3>1. i + 1 # k + 1
      BY <1>2, <1>4
    <3> QED BY <3>1, <1>4 DEF IInv, JobsApart
  <2>4. \A i \in DOMAIN queue', v \in Running' :
          queue'[i].caller = worker'[v].job.caller => Apart(queue'[i], worker'[v].job)
    <3> SUFFICES ASSUME NEW i \in DOMAIN queue', NEW v \in Running', queue'[i].caller = worker'[v].job.caller
                 PROVE  Apart(queue'[i], worker'[v].job)
      OBVIOUS
    <3>1. CASE v \in Running
      BY <3>1, <1>4, <1>11 DEF IInv, JobsApart
    <3>2. CASE v = w
      <4>1. i + 1 # 1 /\ i + 1 \in DOMAIN queue
        BY <1>2, <1>4
      <4> QED BY <3>2, <4>1, <1>3, <1>4, <1>12, <1>16 DEF IInv, JobsApart
    <3> QED BY <3>1, <3>2, <1>10
  <2>5. \A u, v \in Running' :
          u # v /\ worker'[u].job.caller = worker'[v].job.caller => Apart(worker'[u].job, worker'[v].job)
    <3> SUFFICES ASSUME NEW u \in Running', NEW v \in Running', u # v,
                        worker'[u].job.caller = worker'[v].job.caller
                 PROVE  Apart(worker'[u].job, worker'[v].job)
      OBVIOUS
    <3>1. CASE u \in Running /\ v \in Running
      BY <3>1, <1>11 DEF IInv, JobsApart
    <3>2. CASE u = w /\ v \in Running
      BY <3>2, <1>3, <1>11, <1>12, <1>16 DEF IInv, JobsApart
    <3>3. CASE u \in Running /\ v = w
      BY <3>3, <1>3, <1>11, <1>12, <1>16 DEF IInv, JobsApart, Apart
    <3> QED BY <3>1, <3>2, <3>3, <1>10
  <2> QED BY <2>1, <2>2, <2>3, <2>4, <2>5 DEF JobsApart, Apart
\* What waits or runs is the same: only the first job changes its place.
<1>18. \A d \in Callers, i \in DOMAIN queue' : i \in JobsOf(d)' <=> i + 1 \in JobsOf(d)
  BY <1>4 DEF JobsOf
<1>19. \A d \in Callers : RunningFor(d)' = RunningFor(d) \cup (IF job.caller = d THEN {w} ELSE {})
  BY <1>10, <1>11, <1>12 DEF RunningFor
<1>20. \A d \in Callers : 1 \in JobsOf(d) <=> job.caller = d
  BY <1>3, <1>16 DEF JobsOf
<1>21. ASSUME NEW d \in Callers PROVE Open(d)' = Open(d)
  <2>1. ASSUME NEW x \in Open(d)' PROVE x \in Open(d)
    <3>1. CASE \E i \in JobsOf(d)' : x = queue'[i].from
      <4>1. PICK i \in JobsOf(d)' : x = queue'[i].from
        BY <3>1
      <4>2. i \in DOMAIN queue'
        BY DEF JobsOf
      <4>3. i + 1 \in JobsOf(d) /\ x = queue[i + 1].from
        BY <4>1, <4>2, <1>4, <1>18
      <4> QED BY <4>3 DEF Open
    <3>2. CASE \E v \in RunningFor(d)' : x = worker'[v].job.from
      <4>1. PICK v \in RunningFor(d)' : x = worker'[v].job.from
        BY <3>2
      <4>2. CASE v \in RunningFor(d)
        <5>1. x = worker[v].job.from
          BY <4>1, <4>2, <1>11 DEF RunningFor
        <5> QED BY <5>1, <4>2 DEF Open
      <4>3. CASE v = w /\ job.caller = d
        <5>1. 1 \in JobsOf(d) /\ x = queue[1].from
          BY <4>1, <4>3, <1>3, <1>12, <1>20
        <5> QED BY <5>1 DEF Open
      <4> QED BY <4>2, <4>3, <1>19
    <3> QED BY <2>1, <3>1, <3>2 DEF Open
  <2>2. ASSUME NEW x \in Open(d) PROVE x \in Open(d)'
    <3>1. CASE \E i \in JobsOf(d) : x = queue[i].from
      <4>1. PICK i \in JobsOf(d) : x = queue[i].from
        BY <3>1
      <4>2. i \in DOMAIN queue
        BY DEF JobsOf
      <4>3. CASE i = 1
        <5>1. w \in RunningFor(d)' /\ x = worker'[w].job.from
          BY <4>1, <4>3, <1>3, <1>12, <1>19, <1>20
        <5> QED BY <5>1 DEF Open
      <4>4. CASE i # 1
        <5>1. i - 1 \in JobsOf(d)' /\ x = queue'[i - 1].from
          BY <4>1, <4>2, <4>4, <1>5 DEF JobsOf
        <5> QED BY <5>1 DEF Open
      <4> QED BY <4>3, <4>4
    <3>2. CASE \E v \in RunningFor(d) : x = worker[v].job.from
      <4>1. PICK v \in RunningFor(d) : x = worker[v].job.from
        BY <3>2
      <4>2. v \in RunningFor(d)' /\ x = worker'[v].job.from
        BY <4>1, <1>11, <1>19 DEF RunningFor
      <4> QED BY <4>2 DEF Open
    <3> QED BY <2>2, <3>1, <3>2 DEF Open
  <2> QED BY <2>1, <2>2
<1>22. Counted'
  BY <1>13, <1>21 DEF IInv, Counted
<1>23. ASSUME NEW d \in Callers, NEW r \in Nat
       PROVE  (InQueue(d, r)' \/ AtWork(d, r)') <=> (InQueue(d, r) \/ AtWork(d, r))
  <2>1. ASSUME InQueue(d, r)' PROVE InQueue(d, r)
    <3>1. PICK i \in JobsOf(d)' : r \in queue'[i].from..(queue'[i].to - 1)
      BY <2>1 DEF InQueue
    <3>2. i \in DOMAIN queue'
      BY DEF JobsOf
    <3>3. i + 1 \in JobsOf(d) /\ r \in queue[i + 1].from..(queue[i + 1].to - 1)
      BY <3>1, <3>2, <1>4, <1>18
    <3> QED BY <3>3 DEF InQueue
  <2>2. ASSUME AtWork(d, r)' PROVE InQueue(d, r) \/ AtWork(d, r)
    <3>1. PICK v \in RunningFor(d)' : r \in worker'[v].row..(worker'[v].job.to - 1)
      BY <2>2 DEF AtWork
    <3>2. CASE v \in RunningFor(d)
      <4>1. r \in worker[v].row..(worker[v].job.to - 1)
        BY <3>1, <3>2, <1>11 DEF RunningFor
      <4> QED BY <4>1, <3>2 DEF AtWork
    <3>3. CASE v = w /\ job.caller = d
      <4>1. 1 \in JobsOf(d) /\ r \in queue[1].from..(queue[1].to - 1)
        BY <3>1, <3>3, <1>3, <1>12, <1>20
      <4> QED BY <4>1 DEF InQueue
    <3> QED BY <3>2, <3>3, <1>19
  <2>3. ASSUME InQueue(d, r) PROVE InQueue(d, r)' \/ AtWork(d, r)'
    <3>1. PICK i \in JobsOf(d) : r \in queue[i].from..(queue[i].to - 1)
      BY <2>3 DEF InQueue
    <3>2. i \in DOMAIN queue
      BY DEF JobsOf
    <3>3. CASE i = 1
      <4>1. w \in RunningFor(d)' /\ r \in worker'[w].row..(worker'[w].job.to - 1)
        BY <3>1, <3>3, <1>3, <1>12, <1>19, <1>20
      <4> QED BY <4>1 DEF AtWork
    <3>4. CASE i # 1
      <4>1. i - 1 \in JobsOf(d)' /\ r \in queue'[i - 1].from..(queue'[i - 1].to - 1)
        BY <3>1, <3>2, <3>4, <1>5 DEF JobsOf
      <4> QED BY <4>1 DEF InQueue
    <3> QED BY <3>3, <3>4
  <2>4. ASSUME AtWork(d, r) PROVE AtWork(d, r)'
    <3>1. PICK v \in RunningFor(d) : r \in worker[v].row..(worker[v].job.to - 1)
      BY <2>4 DEF AtWork
    <3>2. v \in RunningFor(d)' /\ r \in worker'[v].row..(worker'[v].job.to - 1)
      BY <3>1, <1>11, <1>19 DEF RunningFor
    <3> QED BY <3>2 DEF AtWork
  <2> QED BY <2>1, <2>2, <2>3, <2>4
<1>24. RowsDone'
  <2>1. ASSUME NEW d \in Callers, NEW r \in Rows(call[d].items)
        PROVE  (InQueue(d, r)' \/ AtWork(d, r)') <=> (InQueue(d, r) \/ AtWork(d, r))
    BY <1>23 DEF Rows
  <2> QED BY <2>1, <1>13 DEF IInv, RowsDone
<1>25. Progress'
  <2>1. job.from < job.to
    BY <1>3, <1>16, ChunkedEnds DEF IInv, JobsApart
  <2>2. job.from..(job.from - 1) = {}
    BY <1>6
  <2> QED BY <2>1, <2>2, <1>6, <1>10, <1>11, <1>12, <1>13 DEF IInv, Progress
<1>26. Kept'
  BY <1>13 DEF IInv, Kept
<1>27. ScratchIsPrivate'
  <2>1. \A v \in Running : worker[v].scratch # s
    BY DEF IInv, ScratchIsPrivate
  <2> QED BY <2>1, <1>1, <1>10, <1>11, <1>12 DEF IInv, ScratchIsPrivate
<1> QED BY <1>14, <1>17, <1>22, <1>24, <1>25, <1>26, <1>27 DEF IInv

-----------------------------------------------------------------------------
(* A worker computes a row. *)

\* A worker computes a row, or its chunk fails.
LEMMA ComputeStep == ASSUME IInv, NEW w \in Workers, Compute(w) PROVE IInv'
<1>1. PICK job \in Job, r \in Nat, s \in Scratches :
        w \in Running /\ worker[w].job = job /\ worker[w].row = r /\ worker[w].scratch = s
  BY Shapes DEF IInv, Compute, Running
<1>2. PICK c \in Callers : c = job.caller
  BY DEF Job
<1> DEFINE fails == r \in call[c].bad
           done == fails \/ r + 1 = job.to
<1>3. /\ times' = [times EXCEPT ![c][r] = @ + 1]
      /\ first' = [first EXCEPT ![c] = IF fails THEN Noted(@, Failure(r)) ELSE @]
      /\ call' = call /\ queue' = queue
  BY <1>1, <1>2 DEF Compute
<1>4. done => /\ wg' = [wg EXCEPT ![c] = @ - 1]
              /\ pool' = pool \cup {s}
              /\ worker' = [worker EXCEPT ![w] = Idle]
  BY <1>1, <1>2 DEF Compute, Done
<1>5. ~done => worker' = [worker EXCEPT ![w].row = r + 1] /\ wg' = wg /\ pool' = pool
  BY <1>1, <1>2 DEF Compute
\* The row: it was not computed before.
<1>6. /\ job.from \in Nat /\ job.to \in Nat /\ job.from <= r /\ r < job.to
      /\ job.to <= call[c].items /\ job.to <= call[c].next /\ call[c].phase = "cutting"
      /\ Cut(call[c].items)
  BY <1>1, <1>2, ChunkedEnds DEF IInv, JobsApart, Progress, Chunked, Job, RowsDone
<1>7. /\ call[c].items \in Nat /\ call[c].next \in Nat /\ call[c].bad \subseteq Rows(call[c].items)
      /\ times[c] \in [Rows(call[c].items) -> Nat]
  BY CallShape DEF IInv
<1>8. r \in Rows(call[c].items)
  BY <1>6, <1>7 DEF Rows
<1>9. w \in RunningFor(c) /\ r \in worker[w].row..(worker[w].job.to - 1)
  BY <1>1, <1>2, <1>6 DEF RunningFor
<1>10. AtWork(c, r)
  BY <1>9 DEF AtWork
<1>11. times[c][r] = 0
  BY <1>8, <1>10 DEF IInv, RowsDone
<1>12. /\ times'[c] \in [Rows(call[c].items) -> Nat]
       /\ times'[c][r] = 1
       /\ \A q \in Rows(call[c].items) : q # r => times'[c][q] = times[c][q]
       /\ \A d \in Callers \ {c} : times'[d] = times[d]
  <2>1. times' = [times EXCEPT ![c] = [times[c] EXCEPT ![r] = times[c][r] + 1]]
    BY <1>3
  <2>2. times'[c] = [times[c] EXCEPT ![r] = times[c][r] + 1]
    BY <2>1 DEF IInv, Typed
  <2> QED BY <2>1, <2>2, <1>7, <1>8, <1>11 DEF IInv, Typed
\* The worker: it goes on to its next row, or is free.
<1>13. \A v \in Workers \ {w} : worker'[v] = worker[v]
  BY <1>4, <1>5 DEF IInv, Typed
<1>14. done => worker'[w] = Idle /\ Running' = Running \ {w}
  BY <1>4, <1>13 DEF IInv, Typed, Running
<1>15. ~done => /\ worker'[w] \in [job : Job, row : Nat, scratch : Scratches]
                /\ worker'[w].job = job /\ worker'[w].row = r + 1 /\ worker'[w].scratch = s
                /\ Running' = Running
  <2> SUFFICES ASSUME ~done
               PROVE  /\ worker'[w] \in [job : Job, row : Nat, scratch : Scratches]
                      /\ worker'[w].job = job /\ worker'[w].row = r + 1 /\ worker'[w].scratch = s
                      /\ Running' = Running
    OBVIOUS
  <2>1. worker[w] \in [job : Job, row : Nat, scratch : Scratches]
    BY <1>1, Shapes DEF IInv
  <2>2. worker'[w] = [worker[w] EXCEPT !.row = r + 1]
    BY <1>5 DEF IInv, Typed
  <2>3. /\ worker'[w] \in [job : Job, row : Nat, scratch : Scratches]
        /\ worker'[w].job = job /\ worker'[w].row = r + 1 /\ worker'[w].scratch = s
    BY <2>1, <2>2, <1>1
  <2>4. worker'[w] # Idle
    <3>1. DOMAIN worker'[w] # DOMAIN Idle
      BY <2>3 DEF Idle
    <3> QED BY <3>1
  <2> QED BY <2>3, <2>4, <1>1, <1>13 DEF Running
<1>16. Running' \subseteq Running /\ \A v \in Running' : worker'[v].job = worker[v].job /\ worker'[v].scratch = worker[v].scratch
  BY <1>1, <1>13, <1>14, <1>15 DEF Running
<1>17. Typed'
  <2>1. first' \in [Callers -> [row : Int]]
    <3>1. Failure(r) \in [row : Int]
      BY DEF Failure
    <3>2. Noted(first[c], Failure(r)) \in [row : Int]
      BY <3>1 DEF Noted, IInv, Typed
    <3> QED BY <1>3, <3>2 DEF IInv, Typed
  <2>2. times' \in [Callers -> UNION {[Rows(n) -> Nat] : n \in Nat}]
    <3>1. times'[c] \in UNION {[Rows(n) -> Nat] : n \in Nat}
      BY <1>7, <1>12
    <3> QED BY <3>1, <1>3, <1>12 DEF IInv, Typed
  <2>3. \A d \in Callers : times'[d] \in [Rows(call'[d].items) -> Nat]
    BY <1>3, <1>12 DEF IInv, Typed
  <2>4. wg' \in [Callers -> Int] /\ pool' \subseteq Scratches
    BY <1>4, <1>5 DEF IInv, Typed
  <2>5. worker' \in [Workers -> {Idle} \cup [job : Job, row : Nat, scratch : Scratches]]
    BY <1>4, <1>5, <1>14, <1>15 DEF IInv, Typed
  <2> QED BY <1>3, <2>1, <2>2, <2>3, <2>4, <2>5 DEF IInv, Typed
<1>18. JobsApart'
  <2>1. \A i \in DOMAIN queue : Chunked(queue[i].caller, queue[i])'
    BY <1>3 DEF IInv, JobsApart, Chunked
  <2>2. ASSUME NEW v \in Running' PROVE Chunked(worker[v].job.caller, worker[v].job)'
    <3>1. Chunked(worker[v].job.caller, worker[v].job)
      BY <1>16 DEF IInv, JobsApart
    <3> QED BY <3>1, <1>3, <1>16 DEF Chunked
  <2> QED BY <2>1, <2>2, <1>3, <1>16 DEF IInv, JobsApart, Apart
\* Other chunks have other rows.
<1>19. \A i \in JobsOf(c) : Apart(queue[i], job) /\ queue[i].from < queue[i].to /\ queue[i].from \in Nat /\ queue[i].to \in Nat
  BY <1>1, <1>2, Shapes, ChunkedEnds DEF IInv, JobsApart, JobsOf, Job
<1>20. \A v \in RunningFor(c) \ {w} :
         /\ Apart(worker[v].job, job) /\ worker[v].job.from < worker[v].job.to
         /\ worker[v].job.from \in Nat /\ worker[v].job.to \in Nat
         /\ worker[v].row \in Nat /\ worker[v].job.from <= worker[v].row
  BY <1>1, <1>2, Shapes, ChunkedEnds DEF IInv, JobsApart, RunningFor, Job, Progress
<1>21. \A d \in Callers : JobsOf(d)' = JobsOf(d)
  BY <1>3 DEF JobsOf
<1>22. \A d \in Callers : RunningFor(d)' = RunningFor(d) \ (IF done /\ d = c THEN {w} ELSE {})
  BY <1>1, <1>2, <1>14, <1>15, <1>16 DEF RunningFor
<1>23. \A d \in Callers \ {c} : RunningFor(d)' = RunningFor(d) /\ w \notin RunningFor(d)
  BY <1>1, <1>2, <1>22 DEF RunningFor
<1>24. Counted'
  <2>1. ASSUME NEW d \in Callers \ {c} PROVE Open(d)' = Open(d) /\ wg'[d] = wg[d]
    <3>1. {worker'[v].job.from : v \in RunningFor(d)} = {worker[v].job.from : v \in RunningFor(d)}
      BY <1>16, <1>23 DEF RunningFor
    <3>2. Open(d)' = Open(d)
      BY <3>1, <1>3, <1>21, <1>23 DEF Open
    <3> QED BY <3>2, <1>4, <1>5 DEF IInv, Typed
  <2>2. CASE ~done
    <3>1. {worker'[v].job.from : v \in RunningFor(c)} = {worker[v].job.from : v \in RunningFor(c)}
      BY <2>2, <1>15, <1>16 DEF RunningFor
    <3>2. Open(c)' = Open(c)
      BY <2>2, <3>1, <1>3, <1>21, <1>22 DEF Open
    <3> QED BY <2>1, <2>2, <3>2, <1>5 DEF IInv, Counted
  <2>3. CASE done
    <3>1. RunningFor(c)' = RunningFor(c) \ {w}
      BY <2>3, <1>22
    <3>2. {worker'[v].job.from : v \in RunningFor(c) \ {w}} = {worker[v].job.from : v \in RunningFor(c) \ {w}}
      BY <1>13 DEF RunningFor, Running
    <3>3. \A i \in JobsOf(c) : queue[i].from # job.from
      BY <1>6, <1>19 DEF Apart
    <3>4. \A v \in RunningFor(c) \ {w} : worker[v].job.from # job.from
      BY <1>6, <1>20 DEF Apart
    <3>5. {worker[v].job.from : v \in RunningFor(c)}
            = {worker[v].job.from : v \in RunningFor(c) \ {w}} \cup {job.from}
      BY <1>1, <1>9
    <3>6. Open(c)' = Open(c) \ {job.from} /\ job.from \in Open(c)
      <4> DEFINE A == {queue[i].from : i \in JobsOf(c)}
                 B == {worker[v].job.from : v \in RunningFor(c) \ {w}}
      <4>1. job.from \notin A /\ job.from \notin B
        BY <3>3, <3>4
      <4>2. Open(c) = A \cup (B \cup {job.from})
        BY <3>5 DEF Open
      <4>3. {queue'[i].from : i \in JobsOf(c)'} = A
        BY <1>3, <1>21
      <4>4. {worker'[v].job.from : v \in RunningFor(c)'} = B
        BY <3>1, <3>2
      <4>5. Open(c)' = A \cup B
        BY <4>3, <4>4 DEF Open
      <4> HIDE DEF A, B
      <4> QED BY <4>1, <4>2, <4>5
    <3>7. IsFiniteSet(Open(c)) /\ wg[c] = Cardinality(Open(c))
      BY DEF IInv, Counted
    <3>8. IsFiniteSet(Open(c) \ {job.from}) /\ Cardinality(Open(c) \ {job.from}) = Cardinality(Open(c)) - 1
      BY <3>6, <3>7, FS_RemoveElement
    <3>9. wg'[c] = wg[c] - 1
      BY <2>3, <1>4 DEF IInv, Typed
    <3> QED BY <2>1, <3>6, <3>7, <3>8, <3>9 DEF IInv, Counted
  <2> QED BY <2>2, <2>3
<1>25. \A d \in Callers, q \in Nat : InQueue(d, q)' <=> InQueue(d, q)
  BY <1>3, <1>21 DEF InQueue
<1>26. \A d \in Callers \ {c}, q \in Nat : AtWork(d, q)' <=> AtWork(d, q)
  BY <1>13, <1>23 DEF AtWork, RunningFor, Running
\* The rows at work for c are those of before, without r, and without the rest of a
\* chunk that failed.
<1>27. ASSUME NEW q \in Nat, AtWork(c, q)' PROVE q # r /\ AtWork(c, q)
  <2>1. PICK v \in RunningFor(c)' : q \in worker'[v].row..(worker'[v].job.to - 1)
    BY <1>27 DEF AtWork
  <2>2. CASE v = w
    <3>1. ~done
      BY <2>2, <1>22
    <3>2. q \in (r + 1)..(job.to - 1)
      BY <2>1, <2>2, <3>1, <1>15
    <3>3. q # r /\ q \in worker[w].row..(worker[w].job.to - 1)
      BY <3>2, <1>1, <1>6
    <3> QED BY <3>3, <1>9 DEF AtWork
  <2>3. CASE v # w
    <3>1. v \in RunningFor(c) \ {w}
      BY <2>3, <1>22
    <3>2. q \in worker[v].row..(worker[v].job.to - 1)
      BY <2>1, <3>1, <1>13 DEF RunningFor, Running
    <3>3. q # r
      BY <3>1, <3>2, <1>6, <1>20 DEF Apart
    <3> QED BY <3>1, <3>2, <3>3 DEF AtWork
  <2> QED BY <2>2, <2>3
<1>28. ASSUME NEW q \in Nat, AtWork(c, q), q # r, ~fails PROVE AtWork(c, q)'
  <2>1. PICK v \in RunningFor(c) : q \in worker[v].row..(worker[v].job.to - 1)
    BY <1>28 DEF AtWork
  <2>2. CASE v = w
    <3>1. q \in (r + 1)..(job.to - 1)
      BY <1>28, <2>1, <2>2, <1>1, <1>6
    <3>2. ~done
      BY <3>1, <1>6, <1>28
    <3>3. w \in RunningFor(c)' /\ q \in worker'[w].row..(worker'[w].job.to - 1)
      BY <3>1, <3>2, <1>9, <1>15, <1>22
    <3> QED BY <3>3 DEF AtWork
  <2>3. CASE v # w
    <3>1. v \in RunningFor(c)' /\ worker'[v] = worker[v]
      BY <2>3, <1>13, <1>22 DEF RunningFor, Running
    <3> QED BY <2>1, <3>1 DEF AtWork
  <2> QED BY <2>2, <2>3
<1>29. \A q \in Nat : InQueue(c, q) => q # r
  BY <1>6, <1>19 DEF InQueue, Apart
<1>30. first'[c] = None => first[c] = None /\ ~fails
  <2>1. Failure(r) # None
    BY DEF Failure, None
  <2> QED BY <2>1, <1>3 DEF Noted, IInv, Typed
<1>31. \A d \in Callers \ {c} : first'[d] = first[d]
  BY <1>3 DEF IInv, Typed
<1>32. RowsDone'
  <2>1. ASSUME NEW q \in Rows(call[c].items)
        PROVE  /\ times'[c][q] <= 1
               /\ q >= call[c].next => times'[c][q] = 0
               /\ InQueue(c, q)' \/ AtWork(c, q)' => times'[c][q] = 0
               /\ first'[c] = None /\ q < call[c].next =>
                    (times'[c][q] = 1 /\ q \notin call[c].bad) \/ InQueue(c, q)' \/ AtWork(c, q)'
    <3>1. q \in Nat
      BY DEF Rows
    <3>2. /\ times[c][q] <= 1
          /\ q >= call[c].next => times[c][q] = 0
          /\ InQueue(c, q) \/ AtWork(c, q) => times[c][q] = 0
          /\ first[c] = None /\ q < call[c].next =>
               (times[c][q] = 1 /\ q \notin call[c].bad) \/ InQueue(c, q) \/ AtWork(c, q)
      BY DEF IInv, RowsDone
    <3>3. CASE q = r
      <4>1. ~InQueue(c, q)' /\ ~AtWork(c, q)'
        BY <3>1, <3>3, <1>25, <1>27, <1>29
      <4>2. times'[c][q] = 1 /\ ~ (q >= call[c].next)
        BY <3>3, <1>6, <1>7, <1>12
      <4> QED BY <3>3, <4>1, <4>2, <1>30
    <3>4. CASE q # r
      <4>1. times'[c][q] = times[c][q]
        BY <3>4, <1>12
      <4>2. InQueue(c, q)' <=> InQueue(c, q)
        BY <3>1, <1>25
      <4>3. AtWork(c, q)' => AtWork(c, q)
        BY <3>1, <1>27
      <4>4. AtWork(c, q) /\ ~fails => AtWork(c, q)'
        BY <3>1, <3>4, <1>28
      <4> QED BY <3>2, <4>1, <4>2, <4>3, <4>4, <1>30
    <3> QED BY <3>3, <3>4
  <2>2. ASSUME NEW d \in Callers \ {c}, NEW q \in Rows(call[d].items)
        PROVE  (InQueue(d, q)' <=> InQueue(d, q)) /\ (AtWork(d, q)' <=> AtWork(d, q))
    <3>1. q \in Nat
      BY DEF Rows
    <3> QED BY <3>1, <1>25, <1>26
  <2>3. ASSUME NEW d \in Callers, NEW q \in Rows(call[d].items)
        PROVE  /\ times'[d][q] <= 1
               /\ q >= call[d].next => times'[d][q] = 0
               /\ InQueue(d, q)' \/ AtWork(d, q)' => times'[d][q] = 0
               /\ first'[d] = None /\ q < call[d].next =>
                    (times'[d][q] = 1 /\ q \notin call[d].bad) \/ InQueue(d, q)' \/ AtWork(d, q)'
    <3>1. CASE d = c
      BY <3>1, <2>1
    <3>2. CASE d # c
      <4>1. times'[d] = times[d] /\ first'[d] = first[d]
        BY <3>2, <1>12, <1>31
      <4>2. (InQueue(d, q)' <=> InQueue(d, q)) /\ (AtWork(d, q)' <=> AtWork(d, q))
        BY <3>2, <2>2
      <4> QED BY <4>1, <4>2 DEF IInv, RowsDone
    <3> QED BY <3>1, <3>2
  <2> QED BY <2>3, <1>3 DEF IInv, RowsDone
<1>33. Progress'
  <2>1. ASSUME NEW v \in Running', v # w
        PROVE  /\ worker'[v].job.from <= worker'[v].row /\ worker'[v].row < worker'[v].job.to
               /\ \A q \in worker'[v].job.from..(worker'[v].row - 1) : q \notin call'[worker'[v].job.caller].bad
    <3>1. v \in Running /\ worker'[v] = worker[v]
      BY <2>1, <1>13, <1>16 DEF Running
    <3> QED BY <3>1, <1>3 DEF IInv, Progress
  <2>2. ASSUME w \in Running'
        PROVE  /\ worker'[w].job.from <= worker'[w].row /\ worker'[w].row < worker'[w].job.to
               /\ \A q \in worker'[w].job.from..(worker'[w].row - 1) : q \notin call'[worker'[w].job.caller].bad
    <3>1. ~done /\ worker'[w].job = job /\ worker'[w].row = r + 1
      BY <2>2, <1>14, <1>15
    <3>2. job.from <= r + 1 /\ r + 1 < job.to
      BY <3>1, <1>6
    <3>3. \A q \in job.from..(r - 1) : q \notin call[c].bad
      BY <1>1, <1>2 DEF IInv, Progress
    <3>4. \A q \in job.from..((r + 1) - 1) : q \notin call[c].bad
      BY <3>1, <3>3, <1>6
    <3> QED BY <3>1, <3>2, <3>4, <1>2, <1>3
  <2> QED BY <2>1, <2>2 DEF Progress
<1>34. Kept'
  <2>1. ASSUME fails, first[c] = None
        PROVE  /\ first'[c].row \in call[c].bad
               /\ \A q \in call[c].bad : q < first'[c].row =>
                    Cut(call[c].items) /\ q \div Chunk(call[c].items) < first'[c].row \div Chunk(call[c].items)
    <3>1. first'[c].row = r
      BY <2>1, <1>3 DEF Noted, Failure, IInv, Typed
    <3> DEFINE n == Chunk(call[c].items)
    <3>2. n \in Nat \ {0}
      BY <1>6, <1>7, ChunkPositive
    <3>3. PICK k \in Nat : job.from = k * n
      BY <1>1, <1>2 DEF IInv, JobsApart, Chunked
    <3> HIDE DEF n
    <3>4. ASSUME NEW q \in call[c].bad, q < r PROVE q \div n < r \div n
      <4>1. q \in Nat
        BY <1>7 DEF Rows
      <4>2. \A p \in job.from..(r - 1) : p \notin call[c].bad
        BY <1>1, <1>2 DEF IInv, Progress
      <4>3. q < job.from
        BY <3>4, <4>1, <4>2, <1>6
      <4> QED BY <3>2, <3>3, <4>1, <4>3, <1>6, EarlierChunk
    <3> QED BY <2>1, <3>1, <3>4, <1>6 DEF n
  <2>2. CASE fails /\ first[c] = None
    BY <2>1, <2>2, <1>3, <1>31 DEF IInv, Kept
  <2>3. CASE ~ (fails /\ first[c] = None)
    <3>1. first'[c] = first[c]
      BY <2>3, <1>3 DEF Noted, IInv, Typed
    <3> QED BY <3>1, <1>3, <1>31 DEF IInv, Kept
  <2> QED BY <2>2, <2>3
<1>35. ScratchIsPrivate'
  <2>1. \A v \in Running' : worker'[v].scratch = worker[v].scratch /\ worker[v].scratch \notin pool
    BY <1>16 DEF IInv, ScratchIsPrivate
  <2>2. done => \A v \in Running' : worker[v].scratch # s
    BY <1>1, <1>14 DEF IInv, ScratchIsPrivate
  <2>3. \A v \in Running' : worker'[v].scratch \notin pool'
    BY <2>1, <2>2, <1>4, <1>5
  <2> QED BY <2>3, <1>16 DEF IInv, ScratchIsPrivate
<1> QED BY <1>17, <1>18, <1>24, <1>32, <1>33, <1>34, <1>35 DEF IInv

-----------------------------------------------------------------------------
(* The theorems. *)

\* The invariant holds in every state of every instance.
THEOREM Invariant == Spec => []IInv
<1>1. Init => IInv
  BY InitIInv
<1>2. IInv /\ [Next]_vars => IInv'
  <2> SUFFICES ASSUME IInv, [Next]_vars PROVE IInv'
    OBVIOUS
  <2>1. ASSUME NEW c \in Callers, Caller(c) PROVE IInv'
    BY <2>1, SerialStep, ParallelForStep, SendStep, ReturnStep DEF Caller
  <2>2. ASSUME NEW w \in Workers, Worker(w) PROVE IInv'
    BY <2>2, TakeStep, ComputeStep DEF Worker
  <2>3. CASE UNCHANGED vars
    <3>1. Running' = Running /\ \A d \in Callers : JobsOf(d)' = JobsOf(d) /\ RunningFor(d)' = RunningFor(d)
      BY <2>3 DEF vars, Running, JobsOf, RunningFor
    <3>2. \A d \in Callers : Open(d)' = Open(d)
      BY <2>3, <3>1 DEF vars, Open
    <3>3. Typed' /\ Counted' /\ Kept'
      BY <2>3, <3>2 DEF vars, IInv, Typed, Counted, Kept
    <3>6. JobsApart'
      BY <2>3, <3>1 DEF vars, IInv, JobsApart, Chunked
    <3>7. ScratchIsPrivate'
      BY <2>3, <3>1 DEF vars, IInv, ScratchIsPrivate
    <3>4. Progress'
      BY <2>3, <3>1 DEF vars, IInv, Progress
    <3>5. RowsDone'
      BY <2>3, <3>1 DEF vars, IInv, RowsDone, InQueue, AtWork
    <3> QED BY <3>3, <3>4, <3>5, <3>6, <3>7 DEF IInv
  <2> QED BY <2>1, <2>2, <2>3 DEF Next
<1> QED BY <1>1, <1>2, PTL DEF Spec

\* A parallel loop computes every row once and leaves nothing behind when it returns
\* (ParallelForWork): what the caller sees is the serial loop.
THEOREM LoopsAreSerial == Spec => []CallsAreLoops
<1>1. IInv => CallsAreLoops
  <2> SUFFICES ASSUME IInv, NEW c \in Callers
               PROVE  /\ \A r \in DOMAIN times[c] : times[c][r] <= 1
                      /\ call[c].phase = "returned" /\ first[c] = None => \A r \in DOMAIN times[c] : times[c][r] = 1
                      /\ call[c].phase = "returned" => JobsOf(c) = {} /\ RunningFor(c) = {}
    BY DEF CallsAreLoops, EachRowOnce, NothingAfterReturn
  <2>1. DOMAIN times[c] = Rows(call[c].items) /\ call[c].items \in Nat /\ call[c].next \in Nat
    BY CallShape DEF IInv
  <2>2. \A r \in Rows(call[c].items) : times[c][r] <= 1
    BY DEF IInv, RowsDone
  <2>3. call[c].phase = "returned" => JobsOf(c) = {} /\ RunningFor(c) = {}
    BY NoJobsLeft DEF IInv
  <2>4. ASSUME call[c].phase = "returned", first[c] = None, NEW r \in Rows(call[c].items)
        PROVE  times[c][r] = 1
    <3>1. r < call[c].next
      BY <2>1, <2>4 DEF IInv, RowsDone, Rows
    <3>2. ~InQueue(c, r) /\ ~AtWork(c, r)
      BY <2>3, <2>4 DEF InQueue, AtWork
    <3> QED BY <2>4, <3>1, <3>2 DEF IInv, RowsDone
  <2> QED BY <2>1, <2>2, <2>3, <2>4
<1> QED BY <1>1, Invariant, PTL

\* A loop fails exactly when a row of it fails, with the first error of a chunk
\* (ParallelForRowsErr).
THEOREM LoopErrors == Spec => []ErrorsAreReturned
<1>1. IInv => ErrorsAreReturned
  <2> SUFFICES ASSUME IInv, NEW c \in Callers, call[c].phase = "returned"
               PROVE  IF call[c].bad = {} THEN first[c] = None
                      ELSE /\ first[c].row \in call[c].bad
                           /\ \A r \in call[c].bad : r < first[c].row =>
                                Cut(call[c].items)
                                /\ r \div Chunk(call[c].items) < first[c].row \div Chunk(call[c].items)
    BY DEF ErrorsAreReturned
  <2>1. call[c].bad = {} => first[c] = None
    BY DEF IInv, Kept
  <2>2. ASSUME NEW r \in call[c].bad PROVE first[c] # None
    <3>1. r \in Rows(call[c].items) /\ call[c].items \in Nat /\ call[c].next \in Nat
      BY CallShape DEF IInv
    <3>2. r < call[c].next
      BY <3>1 DEF IInv, RowsDone, Rows
    <3>3. ~InQueue(c, r) /\ ~AtWork(c, r)
      BY NoJobsLeft DEF IInv, InQueue, AtWork
    <3> QED BY <3>1, <3>2, <3>3 DEF IInv, RowsDone
  <2> QED BY <2>1, <2>2 DEF IInv, Kept
<1> QED BY <1>1, Invariant, PTL

\* Two heads at work never share the buffer of their scores, nor is it free
\* (AttentionScoresIntoSoftcap).
THEOREM ScratchNotShared == Spec => []ScratchIsPrivate
<1>1. IInv => ScratchIsPrivate
  BY DEF IInv
<1> QED BY <1>1, Invariant, PTL
=============================================================================
