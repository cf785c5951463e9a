--------------------------- MODULE LeasedConsumer ---------------------------
(***************************************************************************)
(* The consumers of msq's leased queues (provider/sqs, provider/oci,       *)
(* provider/redis/streams.go, provider/nats) with the worker package they  *)
(* share: a poller takes free slots, receives as many messages, starts a   *)
(* lease renewal for each and hands them to the worker pool; the worker    *)
(* runs the pipeline, stops the renewal and settles.  The broker leases a  *)
(* message to one delivery and hands it out again when the lease expires.  *)
(* Leases have no clock here: the lease of a message whose renewal runs    *)
(* can still lapse, up to MaxLapses times (failed or late renewals).       *)
(***************************************************************************)
EXTENDS Pipeline, FiniteSets, TLC

CONSTANTS
    Kinds,       \* of the queue: "visibility" (SQS, OCI), "stream", "nats"
    Concurrency, \* ConsumeConfig.Concurrency: slots, and workers of the pool
    MaxReceive,  \* most messages one receive asks for
    MaxLapses,   \* bound on leases that lapse although they are renewed
    MaxCrashes,  \* bound on process crashes
    MaxPauses,   \* bound on calls to Pause
    MaxPanics    \* bound on panics of an OnEvent callback

ASSUME ConsumerAssumption ==
    /\ Kinds \subseteq {"visibility", "stream", "nats"}
    /\ IsFiniteSet(Message) /\ IsFiniteSet(JobId)
    /\ Concurrency \in Nat \ {0} /\ MaxReceive \in Nat \ {0}
    /\ MaxLapses \in Nat /\ MaxCrashes \in Nat /\ MaxPauses \in Nat /\ MaxPanics \in Nat

VARIABLES
    kind,
    queue,       \* state of each message in the broker: "ready", "leased", "gone"
    deliveries,  \* the broker's delivery count of each message
    poller,      \* where each consumer's poll loop is
    paused,      \* worker.Gate is closed
    free,        \* worker.Slots: free slots
    taken,       \* the poller's local: slots it acquired and did not hand on
    orphans,     \* renewals that no job will stop, as <<consumer, message>>
    lapses, crashes, pauses, panics,
    late         \* history: receives begun since the gate was closed

brokerVars == <<kind, queue, deliveries, lapses>>
pollVars == <<poller, paused, taken, late>>
faultVars == <<orphans, crashes, pauses, panics>>
vars == <<pipelineVars, brokerVars, pollVars, free, faultVars>>

Init ==
    /\ PipelineInit
    /\ kind \in Kinds
    /\ queue = [m \in Message |-> "ready"]
    /\ deliveries = [m \in Message |-> 0]
    /\ poller = [c \in Consumer |-> "gate"]
    /\ paused = [c \in Consumer |-> FALSE]
    /\ free = [c \in Consumer |-> Concurrency]
    /\ taken = [c \in Consumer |-> 0]
    /\ orphans = {}
    /\ lapses = 0 /\ crashes = 0 /\ pauses = 0 /\ panics = 0
    /\ late = [c \in Consumer |-> 0]

Capped(n, cap) == IF n > cap THEN cap ELSE n

Jobs(c) == {i \in JobId : ~At(c, i, "none")}

\* Consumers with a job on m.
Handling(m) == {c \in Consumer : \E i \in JobId : job[c][i].msg = m}
-----------------------------------------------------------------------------
(* The broker.                                                             *)

\* NATS stops redelivering at MaxDeliver, which the durable gets from
\* DeliveryLimit; the other queues keep delivering.
Deliverable(m) ==
    /\ queue[m] = "ready"
    /\ kind = "nats" /\ Limit > 0 => deliveries[m] < Limit

\* The broker leases the messages of S and counts the delivery.
Lease(S) ==
    /\ queue' = [m \in Message |-> IF m \in S THEN "leased" ELSE queue[m]]
    /\ deliveries' = [m \in Message |->
                        IF m \in S /\ deliveries[m] < MaxCount THEN deliveries[m] + 1 ELSE deliveries[m]]
    /\ UNCHANGED <<kind, lapses>>

\* A renewal that starts with the handler, not with the receipt.
RenewedWhileRun(m) ==
    \/ \E c \in Consumer, i \in JobId : job[c][i].msg = m /\ ~At(c, i, "queued")
    \/ \E c \in Consumer : <<c, m>> \in orphans

\* A renewal runs for m's lease: KeepAlive goes from receipt to stopLease, and
\* a job that settles does so well within the last lease granted.
Renewed(m) == Handling(m) # {} \/ \E c \in Consumer : <<c, m>> \in orphans

\* The lease of a message that nobody renews any more runs out.
Expire(m) ==
    /\ queue[m] = "leased"
    /\ ~Renewed(m)
    /\ queue' = [queue EXCEPT ![m] = "ready"]
    /\ UNCHANGED <<pipelineVars, kind, deliveries, lapses, pollVars, free, faultVars>>

\* The renewals of m failed or were late.
Lapse(m) ==
    /\ queue[m] = "leased"
    /\ Renewed(m)
    /\ lapses < MaxLapses
    /\ lapses' = lapses + 1
    /\ queue' = [queue EXCEPT ![m] = "ready"]
    /\ UNCHANGED <<pipelineVars, kind, deliveries, pollVars, free, faultVars>>
-----------------------------------------------------------------------------
(* The poll loop of Consume.                                               *)

\* Gate.Wait: go on, or block on the channel of this pause.
GateWait(c) ==
    /\ poller[c] = "gate"
    /\ ~ended[c]
    /\ poller' = [poller EXCEPT ![c] = IF paused[c] THEN "blocked" ELSE "slots"]
    /\ UNCHANGED <<pipelineVars, brokerVars, paused, taken, late, free, faultVars>>

\* A gate whose waiters do not look at the context.
EndsAtOpenGate(c) ==
    /\ poller[c] = "gate"
    /\ ended[c]
    /\ poller' = [poller EXCEPT ![c] = "closing"]
    /\ UNCHANGED <<pipelineVars, brokerVars, paused, taken, late, free, faultVars>>

\* The context has ended: Consume goes on to close the pool.
LoopEnds(c) ==
    /\ poller[c] \in {"gate", "blocked"}
    /\ ended[c]
    /\ poller' = [poller EXCEPT ![c] = "closing"]
    /\ UNCHANGED <<pipelineVars, brokerVars, paused, taken, late, free, faultVars>>

\* Slots.Acquire: at least one slot, and as many as are free up to the limit of
\* a receive; the receive that follows is under way.
Acquire(c) ==
    /\ poller[c] = "slots"
    /\ free[c] > 0
    /\ poller' = [poller EXCEPT ![c] = "receive"]
    /\ taken' = [taken EXCEPT ![c] = Capped(free[c], MaxReceive)]
    /\ free' = [free EXCEPT ![c] = free[c] - Capped(free[c], MaxReceive)]
    /\ late' = [late EXCEPT ![c] = IF paused[c] THEN Capped(@ + 1, 2) ELSE 0]
    /\ UNCHANGED <<pipelineVars, brokerVars, paused, faultVars>>

\* Slots.Acquire returns the error of the context.
AcquireCut(c) ==
    /\ poller[c] = "slots"
    /\ ended[c]
    /\ poller' = [poller EXCEPT ![c] = "gate"]
    /\ UNCHANGED <<pipelineVars, brokerVars, paused, taken, late, free, faultVars>>

\* Slots.Release(n): slots beyond the capacity are dropped.
Release(c, n) == free' = [free EXCEPT ![c] = Capped(@ + n, Concurrency)]

\* What the provider reports as DeliveryCount: the broker's count, but the
\* stream consumer says 1 for a claimed entry whose XPENDING failed.
Counts(m) ==
    IF kind = "stream" THEN {deliveries[m] + 1, 1} ELSE {deliveries[m] + 1}

\* Injective assignments of the messages of S to unused job names, lowest first.
Assignments(c, S) ==
    LET unused == JobId \ Jobs(c)
        names == {i \in unused : Cardinality({k \in unused : k < i}) < Cardinality(S)}
    IN  {f \in [S -> names] : \A m, n \in S : f[m] = f[n] => m = n}

\* dispatch: every message received becomes a job that holds one slot.
Dispatch(c, S) ==
    \E f \in Assignments(c, S) : \E count \in [S -> 0..MaxCount] :
        /\ \A m \in S : count[m] \in {Capped(n, MaxCount) : n \in Counts(m)}
        /\ job' = [job EXCEPT ![c] = [i \in JobId |->
                    IF \E m \in S : f[m] = i
                    THEN LET m == CHOOSE m \in S : f[m] = i IN NewJob(m, count[m])
                    ELSE job[c][i]]]
        /\ UNCHANGED <<dlq, ended, accepted, dead>>

\* Sets of messages the broker may return to consumer c.
Batches(c) == {S \in SUBSET {m \in Message : Deliverable(m)} : Cardinality(S) <= taken[c]}

\* poll: the messages received keep their slots, the others are released.
Poll(c, S) ==
    /\ poller[c] = "receive"
    /\ Lease(S)
    /\ Dispatch(c, S)
    /\ Release(c, taken[c] - Cardinality(S))
    /\ taken' = [taken EXCEPT ![c] = 0]
    /\ poller' = [poller EXCEPT ![c] = "gate"]
    /\ UNCHANGED <<paused, late, faultVars>>

Receive(c) == \E S \in Batches(c) : Poll(c, S)

\* A failed receive that keeps its slots.
SlotsKept(c) ==
    /\ poller[c] = "receive"
    /\ \E S \in Batches(c) : Lease(S)
    /\ taken' = [taken EXCEPT ![c] = 0]
    /\ poller' = [poller EXCEPT ![c] = "gate"]
    /\ UNCHANGED <<pipelineVars, free, paused, late, faultVars>>

\* The receive fails, although the broker may have leased messages to it: all
\* slots are released, and after a backoff the loop starts again.
ReceiveFails(c) ==
    /\ poller[c] = "receive"
    /\ \E S \in Batches(c) : Lease(S)
    /\ Release(c, taken[c])
    /\ taken' = [taken EXCEPT ![c] = 0]
    /\ poller' = [poller EXCEPT ![c] = "gate"]
    /\ UNCHANGED <<pipelineVars, paused, late, faultVars>>

\* Pool.Close waits for the jobs, then Consume returns.
Close(c) ==
    /\ poller[c] = "closing"
    /\ Jobs(c) = {}
    /\ poller' = [poller EXCEPT ![c] = "returned"]
    /\ UNCHANGED <<pipelineVars, brokerVars, paused, taken, late, free, faultVars>>
-----------------------------------------------------------------------------
(* The worker that runs a job.                                             *)

Work(c, i) == Handle(c, i) /\ UNCHANGED <<brokerVars, pollVars, free, faultVars>>

\* handle: the renewal is stopped, the message deleted or acked.
Settled(c, i) ==
    /\ At(c, i, "remove")
    /\ queue' = [queue EXCEPT ![job[c][i].msg] = "gone"]
    /\ Forget(c, i)
    /\ Release(c, 1)
    /\ UNCHANGED <<dlq, ended, accepted, dead, kind, deliveries, lapses, pollVars, faultVars>>

\* handle: the message was nacked, or its delete or ack failed: it stays
\* leased until the lease runs out.
LeftLeased(c, i) ==
    /\ job[c][i].phase \in {"nack", "remove"}
    /\ Forget(c, i)
    /\ Release(c, 1)
    /\ UNCHANGED <<dlq, ended, accepted, dead, brokerVars, pollVars, faultVars>>

\* An OnEvent callback panics, on EventMessageReceived or on the event of the
\* result: safeRun recovers, the slot is released, but stopLease is not called.
EventPanics(c, i) ==
    /\ job[c][i].phase \in {"queued", "nack", "remove"}
    /\ panics < MaxPanics
    /\ panics' = panics + 1
    /\ orphans' = orphans \cup {<<c, job[c][i].msg>>}
    /\ Forget(c, i)
    /\ Release(c, 1)
    /\ UNCHANGED <<dlq, ended, accepted, dead, brokerVars, pollVars, crashes, pauses>>
-----------------------------------------------------------------------------
(* Pause, Resume, shutdown and the process.                                *)

Alive(c) == poller[c] \notin {"returned", "crashed"}

Pause(c) ==
    /\ Alive(c)
    /\ ~paused[c]
    /\ pauses < MaxPauses
    /\ pauses' = pauses + 1
    /\ paused' = [paused EXCEPT ![c] = TRUE]
    /\ late' = [late EXCEPT ![c] = 0]
    /\ UNCHANGED <<pipelineVars, brokerVars, poller, taken, free, orphans, crashes, panics>>

\* Resume wakes the poller, which does not look at the gate again, only at its
\* context.
Resume(c) ==
    /\ Alive(c)
    /\ paused[c]
    /\ paused' = [paused EXCEPT ![c] = FALSE]
    /\ late' = [late EXCEPT ![c] = 0]
    /\ poller' = [poller EXCEPT ![c] = IF @ = "blocked" /\ ~ended[c] THEN "slots" ELSE @]
    /\ UNCHANGED <<pipelineVars, brokerVars, taken, free, faultVars>>

\* The context given to Consume ends.
Shutdown(c) ==
    /\ Alive(c)
    /\ ~ended[c]
    /\ ended' = [ended EXCEPT ![c] = TRUE]
    /\ UNCHANGED <<dlq, job, accepted, dead, brokerVars, pollVars, free, faultVars>>

\* The process dies with its jobs and renewals.
Crash(c) ==
    /\ Alive(c)
    /\ crashes < MaxCrashes
    /\ crashes' = crashes + 1
    /\ poller' = [poller EXCEPT ![c] = "crashed"]
    /\ job' = [job EXCEPT ![c] = [i \in JobId |-> NoJob]]
    /\ ended' = [ended EXCEPT ![c] = FALSE]
    /\ paused' = [paused EXCEPT ![c] = FALSE]
    /\ late' = [late EXCEPT ![c] = 0]
    /\ taken' = [taken EXCEPT ![c] = 0]
    /\ free' = [free EXCEPT ![c] = Concurrency]
    /\ orphans' = {o \in orphans : o[1] # c}
    /\ UNCHANGED <<dlq, accepted, dead, brokerVars, pauses, panics>>

\* A new process consumes again.
Restart(c) ==
    /\ poller[c] = "crashed"
    /\ poller' = [poller EXCEPT ![c] = "gate"]
    /\ UNCHANGED <<pipelineVars, brokerVars, paused, taken, late, free, faultVars>>
-----------------------------------------------------------------------------
PollLoop(c) ==
    \/ GateWait(c) \/ LoopEnds(c) \/ Acquire(c) \/ AcquireCut(c)
    \/ Receive(c) \/ ReceiveFails(c) \/ Close(c)

Worker(c, i) == Work(c, i) \/ Settled(c, i) \/ LeftLeased(c, i)

Control(c) == Pause(c) \/ Resume(c) \/ Shutdown(c) \/ Crash(c) \/ Restart(c)

Next ==
    \/ \E m \in Message : Expire(m) \/ Lapse(m)
    \/ \E c \in Consumer :
        \/ PollLoop(c) \/ Control(c)
        \/ \E i \in JobId : Worker(c, i) \/ EventPanics(c, i)

Spec == Init /\ [][Next]_vars

\* Consumers are interchangeable, and so are messages.
Symmetry == Permutations(Consumer) \cup Permutations(Message)

\* Goroutines are scheduled, handlers and calls return, leases run out, and the
\* broker hands a deliverable message to a consumer that keeps polling.
Fairness ==
    /\ \A c \in Consumer :
        /\ WF_vars(PollLoop(c))
        /\ \A i \in JobId : WF_vars(Worker(c, i))
    /\ \A m \in Message :
        /\ WF_vars(Expire(m))
        /\ SF_vars(\E c \in Consumer : \E S \in Batches(c) : m \in S /\ Poll(c, S))

FairSpec == Spec /\ Fairness
-----------------------------------------------------------------------------
TypeOK ==
    /\ kind \in Kinds
    /\ dlq \in DeadLetter
    /\ job \in [Consumer -> [JobId -> Job]]
    /\ ended \in [Consumer -> BOOLEAN]
    /\ accepted \in [Message -> BOOLEAN]
    /\ dead \in [Message -> BOOLEAN]
    /\ queue \in [Message -> {"ready", "leased", "gone"}]
    /\ deliveries \in [Message -> 0..MaxCount]
    /\ poller \in [Consumer -> {"gate", "blocked", "slots", "receive", "closing", "returned", "crashed"}]
    /\ paused \in [Consumer -> BOOLEAN]
    /\ free \in [Consumer -> 0..Concurrency]
    /\ taken \in [Consumer -> 0..Concurrency]
    /\ orphans \subseteq Consumer \X Message
    /\ lapses \in 0..MaxLapses /\ crashes \in 0..MaxCrashes /\ pauses \in 0..MaxPauses /\ panics \in 0..MaxPanics
    /\ late \in [Consumer -> 0..2]

\* A message leaves the queue only after a handler accepted it, a copy reached
\* the dead-letter topic, or all its deliveries were used up without one
\* (settleNack and the providers' handle): failures, lost calls, shutdowns and
\* crashes never lose it.
NothingLost ==
    \A m \in Message :
        queue[m] = "gone" => accepted[m] \/ dead[m] \/ (~dlq /\ DeliveryLimitReached(deliveries[m]))

\* A message is copied to the dead-letter topic only after MaxRetries + 1
\* attempts of one delivery failed: a shutdown that cuts the retries short
\* leaves it to the next consumer (Handle's check of ctx.Err).
DeadLetterExhausted ==
    [][\A c \in Consumer, i \in JobId :
        At(c, i, "nacked") /\ At(c, i, "dlq")' => job[c][i].attempt = MaxRetries + 1]_vars

\* Slots: free ones, those the poller holds and those of jobs add up, so no
\* more messages are received than workers can start on at once.
SlotsConserved ==
    \A c \in Consumer : free[c] + taken[c] + Cardinality(Jobs(c)) = Concurrency

\* While renewals work, a message is in the hands of one job at a time, from
\* receipt to settling: waiting in the pool or retrying does not expose it to
\* another consumer (worker.KeepAlive is started before Enqueue).
HandledOnce ==
    lapses = 0 => \A c, d \in Consumer, i, j \in JobId :
        job[c][i].msg = job[d][j].msg => job[c][i].msg = NoMsg \/ (c = d /\ i = j)

\* Pause: the poller begins at most one more receive, the one that had passed
\* the gate already.
PauseStopsPolling == \A c \in Consumer : paused[c] => late[c] <= 1

\* DeliveryCount is the broker's count or 0 (types.Message, deliveryCounts).
CountIsBrokers ==
    \A c \in Consumer, i \in JobId :
        job[c][i].msg # NoMsg /\ lapses = 0 => job[c][i].count \in {0, deliveries[job[c][i].msg]}

Serving(c) == poller[c] # "crashed" /\ ~ended[c] /\ ~paused[c]

\* A message left leased with nobody working on it is delivered again, as long
\* as a consumer goes on polling (comment of Pool.safeRun).
Redelivered ==
    \A m \in Message :
        queue[m] = "leased" /\ Handling(m) = {} /\ (kind = "nats" => ~DeliveryLimitReached(deliveries[m]))
            ~> Handling(m) # {} \/ queue[m] = "gone" \/ \A c \in Consumer : ~Serving(c)

\* Once its context ends, also while it is paused or waits for a slot, Consume
\* lets its jobs finish and returns.
Drains ==
    \A c \in Consumer : ended[c] ~> (poller[c] = "returned" /\ Jobs(c) = {}) \/ poller[c] = "crashed"

\* A consumer takes no more than it can start on and stops taking when it is
\* paused (worker slots, gate).
Backpressure == SlotsConserved /\ PauseStopsPolling

\* What the poller and the pool bring about: an abandoned message comes back,
\* and a consumer whose context ended finishes and returns.
Settles == Redelivered /\ Drains
=============================================================================
