---------------------------- MODULE WorkerPool ----------------------------
(* base/cronjob/worker_pool.go: goroutines feed batches of jobs to a pool   *)
(* of workers through a bounded channel, and Close stops it.  The RWMutex   *)
(* is Go's: a waiting writer holds back new readers.                        *)
EXTENDS Naturals, Sequences, SequencesExt, FiniteSets

CONSTANTS
    Feeders,      \* goroutines that run a JobGenerator with the pool
    Closers,      \* goroutines that call Close
    Workers,      \* the workers Start starts; the channel holds as many batches
    Items,        \* bound: items of each generator
    BatchSize

ASSUME WorkerPoolAssumption ==
    /\ Workers # {} /\ IsFiniteSet(Workers)
    /\ Items \in Nat /\ BatchSize \in Nat

VARIABLES
    pool,      \* [jobs, closedChan, wg, closed, panicked]: the WorkerPool
    mu,        \* [readers, waiting]: the RWMutex mu
    feeder, closer, worker,
    ran        \* how often each job, <<feeder, item>>, ran
poolVars == <<pool, mu, feeder, closer, worker, ran>>

(* GenerateJobs: the items in batches of BatchSize, the last one shorter;   *)
(* a BatchSize below 1 makes batches of one.                                *)
GenerateJobs(f) ==
    LET size == IF BatchSize < 1 THEN 1 ELSE BatchSize
        batches == (Items + size - 1) \div size
        upTo(k) == IF k * size > Items THEN Items ELSE k * size
    IN [k \in 1 .. batches |-> [j \in 1 .. (upTo(k) - (k - 1) * size) |-> <<f, (k - 1) * size + j>>]]

WorkerPoolInit ==
    /\ pool = [jobs |-> << >>, closedChan |-> FALSE, wg |-> 0, closed |-> FALSE, panicked |-> FALSE]
    /\ mu = [readers |-> {}, waiting |-> {}]
    /\ feeder = [f \in Feeders |-> [pc |-> "next", todo |-> GenerateJobs(f), accepted |-> {}]]
    /\ closer = [c \in Closers |-> "idle"]
    /\ worker = [w \in Workers |-> << >>]
    /\ ran = [j \in Feeders \X (1 .. Items) |-> 0]

-----------------------------------------------------------------------------
(* RunWithPool and EnqueueJobBatch *)

RunEnds(f) ==
    /\ feeder[f].pc = "next" /\ feeder[f].todo = << >>
    /\ feeder' = [feeder EXCEPT ![f].pc = "returned"]
    /\ UNCHANGED <<pool, mu, closer, worker, ran>>

EnqueueRLock(f) ==
    /\ feeder[f].pc = "next" /\ feeder[f].todo # << >>
    /\ mu.waiting = {}
    /\ mu' = [mu EXCEPT !.readers = @ \cup {f}]
    /\ feeder' = [feeder EXCEPT ![f].pc = "locked"]
    /\ UNCHANGED <<pool, closer, worker, ran>>

(* Closed, or wg.Add of the batch's jobs. *)
EnqueueChecks(f) ==
    /\ feeder[f].pc = "locked"
    /\ IF pool.closed
       THEN /\ feeder' = [feeder EXCEPT ![f].pc = "returned", ![f].todo = << >>]
            /\ mu' = [mu EXCEPT !.readers = @ \ {f}]
            /\ UNCHANGED pool
       ELSE /\ feeder' = [feeder EXCEPT ![f].pc = "send"]
            /\ pool' = [pool EXCEPT !.wg = @ + Len(Head(feeder[f].todo))]
            /\ UNCHANGED mu
    /\ UNCHANGED <<closer, worker, ran>>

(* The send blocks while the channel is full; on a closed one it panics. *)
EnqueueSends(f) ==
    /\ feeder[f].pc = "send"
    /\ pool.closedChan \/ Len(pool.jobs) < Cardinality(Workers)
    /\ IF pool.closedChan THEN pool' = [pool EXCEPT !.panicked = TRUE]
       ELSE pool' = [pool EXCEPT !.jobs = Append(@, Head(feeder[f].todo))]
    /\ mu' = [mu EXCEPT !.readers = @ \ {f}]
    /\ feeder' = [feeder EXCEPT ![f] = [pc |-> "next", todo |-> Tail(@.todo),
                                        accepted |-> @.accepted \cup Range(Head(@.todo))]]
    /\ UNCHANGED <<closer, worker, ran>>

-----------------------------------------------------------------------------
(* worker: a batch's jobs in order.  A job may panic: safeRun recovers it   *)
(* and wg.Done runs either way.                                             *)

WorkerTakes(w) ==
    /\ worker[w] = << >> /\ pool.jobs # << >>
    /\ worker' = [worker EXCEPT ![w] = Head(pool.jobs)]
    /\ pool' = [pool EXCEPT !.jobs = Tail(@)]
    /\ UNCHANGED <<mu, feeder, closer, ran>>

SafeRun(w) ==
    /\ worker[w] # << >>
    /\ ran' = [ran EXCEPT ![Head(worker[w])] = @ + 1]
    /\ pool' = [pool EXCEPT !.wg = @ - 1]
    /\ worker' = [worker EXCEPT ![w] = Tail(@)]
    /\ UNCHANGED <<mu, feeder, closer>>

-----------------------------------------------------------------------------
(* Close *)

CloseCalls(c) ==
    /\ closer[c] = "idle"
    /\ closer' = [closer EXCEPT ![c] = "lock"]
    /\ mu' = [mu EXCEPT !.waiting = @ \cup {c}]
    /\ UNCHANGED <<pool, feeder, worker, ran>>

CloseLocks(c) ==
    /\ closer[c] = "lock" /\ mu.readers = {}
    /\ mu' = [mu EXCEPT !.waiting = @ \ {c}]
    /\ closer' = [closer EXCEPT ![c] = IF pool.closed THEN "returned" ELSE "wait"]
    /\ pool' = [pool EXCEPT !.closed = TRUE]
    /\ UNCHANGED <<feeder, worker, ran>>

CloseWaitsNot(c) ==
    /\ closer[c] = "wait"
    /\ closer' = [closer EXCEPT ![c] = "drained"]
    /\ pool' = [pool EXCEPT !.closedChan = TRUE]
    /\ UNCHANGED <<mu, feeder, worker, ran>>
CloseWaits(c) ==
    /\ closer[c] = "wait" /\ pool.wg = 0
    /\ closer' = [closer EXCEPT ![c] = "drained"]
    /\ pool' = [pool EXCEPT !.closedChan = TRUE]
    /\ UNCHANGED <<mu, feeder, worker, ran>>

PoolStep ==
    \/ \E f \in Feeders : RunEnds(f) \/ EnqueueRLock(f) \/ EnqueueChecks(f) \/ EnqueueSends(f)
    \/ \E w \in Workers : WorkerTakes(w) \/ SafeRun(w)
    \/ \E c \in Closers : CloseLocks(c) \/ CloseWaits(c)
WorkerPoolNext == PoolStep \/ \E c \in Closers : CloseCalls(c)

-----------------------------------------------------------------------------
(* Properties *)

(* Close drains the pool (WorkerPool.Close against EnqueueJobBatch): no     *)
(* batch is sent on a closed channel, and once the Close that closed the    *)
(* pool returns, each job of a batch that EnqueueJobBatch accepted ran once *)
(* and no other job ran.  Nobody waits for ever: when no step is left,      *)
(* every generator and every Close that was called has returned.            *)
PoolDrained ==
    /\ ~pool.panicked
    /\ \A c \in Closers : closer[c] = "drained" =>
         \A j \in DOMAIN ran : ran[j] = IF j \in feeder[j[1]].accepted THEN 1 ELSE 0
    /\ \/ ENABLED PoolStep
       \/ /\ \A f \in Feeders : feeder[f].pc = "returned"
          /\ \A c \in Closers : closer[c] \in {"idle", "returned", "drained"}
=============================================================================
