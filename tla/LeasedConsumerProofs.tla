------------------------ MODULE LeasedConsumerProofs ------------------------
(***************************************************************************)
(* Theorems about LeasedConsumer, for any number of consumers, messages,   *)
(* slots, retries and faults.                                              *)
(***************************************************************************)
EXTENDS LeasedConsumer, FiniteSetTheorems, TLAPS
-----------------------------------------------------------------------------
(* Steps: what a step of the pipeline and a dispatch leave of a consumer's *)
(* jobs, and that every step keeps TypeOK.                                 *)


\* What most steps need of the assumptions.
LEMMA ConstantTypes ==
    /\ NoMsg \notin Message
    /\ MaxRetries \in Nat /\ Limit \in Nat /\ MaxCount \in Nat /\ MaxCount > 0 /\ Limit <= MaxCount
    /\ Concurrency \in Nat /\ MaxReceive \in Nat /\ MaxReceive > 0
    /\ MaxLapses \in Nat /\ MaxCrashes \in Nat /\ MaxPauses \in Nat /\ MaxPanics \in Nat
  BY PipelineAssumption, ConsumerAssumption

LEMMA NatChain == \A a, b, d \in Nat : a <= b /\ b <= d => a <= d
  OBVIOUS

\* Arithmetic on slots.
LEMMA OneLess == \A a, b \in Nat : b # 0 => a + (b - 1) \in Nat
  OBVIOUS

LEMMA OneLessSum == \A a \in Int, b, d \in Nat : a + (b + (d - 1)) = a + b + (d - 1)
  OBVIOUS

\* s of t slots taken become jobs, and a job gives its slot back.
SlotsMove(f, t, j, s) == f + (t - s) + (j + s) = f + t + j
SlotReturns(f, t, j) == f + 1 + (t + (j - 1)) = f + t + j

LEMMA SlotsBalance ==
    \A f, t, j, s \in Nat : SlotsMove(f, t, j, s) /\ SlotReturns(f, t, j)
  BY DEF SlotsMove, SlotReturns

\* One job changes and the others stay.
LEMMA OneJob ==
    ASSUME job \in [Consumer -> [JobId -> Job]],
           NEW c \in Consumer, NEW i \in JobId, NEW v \in Job,
           job' = [job EXCEPT ![c][i] = v]
    PROVE  /\ job' \in [Consumer -> [JobId -> Job]]
           /\ \A d \in Consumer, k \in JobId :
                job'[d][k] = IF d = c /\ k = i THEN v ELSE job[d][k]
  OBVIOUS

LEMMA NoJobType == NoJob \in Job
  BY ConstantTypes DEF NoJob, Job, Phase

LEMMA NewJobFields ==
    \A v, m, n : v = NewJob(m, n) => v.phase = "queued" /\ v.msg = m /\ v.count = n
  BY DEF NewJob

IsMoved(j, p, a, v) ==
    v = Moved(j, p, a) /\ v.phase = p /\ v.attempt = a /\ v.msg = j.msg /\ v.count = j.count

\* A job moved along is a job; stated with a witness to PICK.
LEMMA MovedJob ==
    ASSUME NEW j \in Job, NEW p \in Phase, NEW a \in 0..(MaxRetries + 1)
    PROVE  \E v \in Job : IsMoved(j, p, a, v)
  <1> DEFINE v == Moved(j, p, a)
  <1>1. v \in Job /\ v.phase = p /\ v.attempt = a /\ v.msg = j.msg /\ v.count = j.count
    BY Zenon DEF Job, Moved
  <1> HIDE DEF v
  <1>2. \E u \in Job : u = v /\ u.phase = p /\ u.attempt = a /\ u.msg = j.msg /\ u.count = j.count
    BY Zenon, <1>1
  <1> QED BY Zenon, <1>2 DEF v, IsMoved
-----------------------------------------------------------------------------
(* The invariant on jobs.                                                  *)

\* Why message m may leave the queue.
Settleable(m) ==
    accepted[m] \/ dead[m] \/ (~dlq /\ DeliveryLimitReached(deliveries[m]))

JobOK(c, i) ==
    /\ job[c][i].phase = "none" <=> job[c][i].msg = NoMsg
    /\ job[c][i].msg # NoMsg => job[c][i].count <= deliveries[job[c][i].msg]
    /\ job[c][i].phase = "run" => job[c][i].attempt \in 1..(MaxRetries + 1)
    /\ job[c][i].phase = "backoff" => job[c][i].attempt \in 1..MaxRetries
    /\ job[c][i].phase = "nacked" => ended[c] \/ job[c][i].attempt = MaxRetries + 1
    /\ job[c][i].phase = "remove" => Settleable(job[c][i].msg)

JobsOK == \A c \in Consumer, i \in JobId : JobOK(c, i)

\* What a step of Handle leaves of job j.
Handled(c, j, v) ==
    /\ v.msg = j.msg /\ v.count = j.count
    /\ j.phase # "none" /\ v.phase # "none"
    /\ v.phase = "run" => v.attempt \in 1..(MaxRetries + 1)
    /\ v.phase = "backoff" => v.attempt \in 1..MaxRetries
    /\ v.phase = "nacked" => ended[c] \/ v.attempt = MaxRetries + 1
    /\ v.phase = "remove" => Settleable(v.msg)'
    /\ v.phase = "dlq" => j.phase = "nacked" /\ j.attempt = MaxRetries + 1

\* A step of Handle moves its job along and only adds to the history.
HandleEffect(c, i) ==
    /\ \E v \in Job : job' = [job EXCEPT ![c][i] = v] /\ Handled(c, job[c][i], v)
    /\ accepted' \in [Message -> BOOLEAN] /\ dead' \in [Message -> BOOLEAN]
    /\ \A m \in Message : (accepted[m] => accepted'[m]) /\ (dead[m] => dead'[m])
    /\ UNCHANGED <<dlq, ended, deliveries>>

LEMMA HandleStep ==
    ASSUME TypeOK, JobsOK, NEW c \in Consumer, NEW i \in JobId,
           Handle(c, i), UNCHANGED deliveries
    PROVE  HandleEffect(c, i)
  <1> USE ConstantTypes
  <1> PICK j \in Job : j = job[c][i]
    BY DEF TypeOK
  <1>1. j \in Job /\ JobOK(c, i)
    BY Zenon DEF TypeOK, JobsOK
  <1>0. j.attempt \in 0..(MaxRetries + 1)
    BY Zenon, <1>1 DEF Job
  <1>2. j.phase # "none" => j.msg \in Message
    BY Zenon, <1>1 DEF JobOK, Job
  <1>3. accepted \in [Message -> BOOLEAN] /\ dead \in [Message -> BOOLEAN]
    BY Zenon DEF TypeOK
  <1>4. CASE Begin(c, i)
    <2>1. PICK v \in Job :
            v = Moved(j, "run", 1) /\ v.phase = "run" /\ v.attempt = 1 /\ v.msg = j.msg /\ v.count = j.count
      <3>1. PICK n \in 0..(MaxRetries + 1) : n = 1
        BY ConstantTypes
      <3>2. "run" \in Phase
        BY Zenon DEF Phase
      <3>3. PICK v \in Job : IsMoved(j, "run", n, v)
        BY Zenon, <3>1, <3>2, MovedJob
      <3> QED BY Zenon, <3>1, <3>3 DEF IsMoved
    <2>2. Handled(c, j, v)
      BY <2>1, <1>4 DEF Handled, Begin, At
    <2>3. job' = [job EXCEPT ![c][i] = v] /\ UNCHANGED <<accepted, dead, dlq, ended, deliveries>>
      BY Zenon, <1>4, <2>1 DEF Begin
    <2> QED BY Zenon, <1>3, <2>1, <2>2, <2>3 DEF HandleEffect
  <1>5. CASE Retry(c, i)
    <2>0. j.phase = "backoff" /\ j.attempt \in 1..MaxRetries
      BY Zenon, <1>1, <1>5 DEF Retry, At, JobOK
    <2>1. PICK v \in Job :
            v = Moved(j, "run", j.attempt + 1) /\ v.phase = "run" /\ v.attempt = j.attempt + 1 /\ v.msg = j.msg /\ v.count = j.count
      <3>1. PICK n \in 0..(MaxRetries + 1) : n = j.attempt + 1
        BY <2>0
      <3>2. "run" \in Phase
        BY Zenon DEF Phase
      <3>3. PICK v \in Job : IsMoved(j, "run", n, v)
        BY Zenon, <3>1, <3>2, MovedJob
      <3> QED BY Zenon, <3>1, <3>3 DEF IsMoved
    <2>2. Handled(c, j, v)
      <3>1. \A n \in 1..MaxRetries : n + 1 \in 1..(MaxRetries + 1)
        BY ConstantTypes
      <3>2. v.attempt \in 1..(MaxRetries + 1)
        BY Zenon, <2>0, <2>1, <3>1
      <3> QED BY Zenon, <2>0, <2>1, <3>2 DEF Handled
    <2>3. job' = [job EXCEPT ![c][i] = v] /\ UNCHANGED <<accepted, dead, dlq, ended, deliveries>>
      BY Zenon, <1>5, <2>1 DEF Retry
    <2> QED BY Zenon, <1>3, <2>1, <2>2, <2>3 DEF HandleEffect
  <1>6. CASE HandlerAccepts(c, i)
    <2>0. j.phase = "run" /\ j.msg \in Message
      BY Zenon, <1>2, <1>6 DEF HandlerAccepts, At
    <2>1. PICK v \in Job :
            v = Moved(j, "remove", j.attempt) /\ v.phase = "remove" /\ v.attempt = j.attempt /\ v.msg = j.msg /\ v.count = j.count
      <3>1. "remove" \in Phase /\ j.attempt \in 0..(MaxRetries + 1)
        BY Zenon, <1>0 DEF Phase
      <3>3. PICK v \in Job : IsMoved(j, "remove", j.attempt, v)
        BY Zenon, <3>1, MovedJob
      <3> QED BY Zenon, <3>1, <3>3 DEF IsMoved
    <2>2. accepted' = [accepted EXCEPT ![j.msg] = TRUE] /\ UNCHANGED <<dead, dlq, ended, deliveries>>
      BY Zenon, <1>6 DEF HandlerAccepts
    <2>3. accepted'[j.msg]
      BY Zenon, <2>0, <2>2, <1>3
    <2>4. Handled(c, j, v)
      BY Zenon, <2>0, <2>1, <2>3 DEF Handled, Settleable
    <2>5. job' = [job EXCEPT ![c][i] = v]
      BY Zenon, <1>6, <2>1 DEF HandlerAccepts, Goto
    <2> QED BY Zenon, <1>3, <2>0, <2>1, <2>2, <2>4, <2>5 DEF HandleEffect
  <1>7. CASE HandlerNacks(c, i) \/ RetryCut(c, i) \/ SettleNack(c, i)
    <2>1. UNCHANGED <<accepted, dead, dlq, ended, deliveries>>
      BY Zenon, <1>7 DEF HandlerNacks, RetryCut, SettleNack
    <2>2. PICK p \in Phase :
            /\ job' = [job EXCEPT ![c][i] = Moved(j, p, j.attempt)]
            /\ j.phase # "none" /\ p # "none" /\ p # "run"
            /\ p = "backoff" => j.attempt \in 1..MaxRetries
            /\ p = "nacked" => ended[c] \/ j.attempt = MaxRetries + 1
            /\ p = "dlq" => j.phase = "nacked" /\ j.attempt = MaxRetries + 1
            /\ p = "remove" => ~dlq /\ DeliveryLimitReached(j.count)
      <3>1. CASE HandlerNacks(c, i)
        <4>1. j.phase = "run" /\ j.attempt \in 1..(MaxRetries + 1)
          BY Zenon, <1>1, <3>1 DEF HandlerNacks, At, JobOK
        <4>2. CASE j.attempt > MaxRetries
          BY <3>1, <4>1, <4>2 DEF HandlerNacks, Goto, Phase
        <4>3. CASE ~(j.attempt > MaxRetries)
          BY <3>1, <4>1, <4>3 DEF HandlerNacks, Goto, Phase
        <4> QED BY Zenon, <4>2, <4>3
      <3>2. CASE RetryCut(c, i)
        BY Zenon, <3>2 DEF RetryCut, Goto, At, Phase
      <3>3. CASE SettleNack(c, i)
        <4>1. j.phase = "nacked" /\ (ended[c] \/ j.attempt = MaxRetries + 1)
          BY Zenon, <1>1, <3>3 DEF SettleNack, At, JobOK
        <4> QED BY Zenon, <3>3, <4>1 DEF SettleNack, Goto, Phase
      <3> QED BY Zenon, <1>7, <3>1, <3>2, <3>3
    <2>3. PICK v \in Job :
            v = Moved(j, p, j.attempt) /\ v.phase = p /\ v.attempt = j.attempt /\ v.msg = j.msg /\ v.count = j.count
      <3>1. p \in Phase /\ j.attempt \in 0..(MaxRetries + 1)
        BY Zenon, <1>0 DEF Phase
      <3>3. PICK v \in Job : IsMoved(j, p, j.attempt, v)
        BY Zenon, <3>1, MovedJob
      <3> QED BY Zenon, <3>1, <3>3 DEF IsMoved
    <2>4. p = "remove" => Settleable(j.msg)'
      <3>1. j.msg \in Message /\ j.count \in Nat /\ j.count <= deliveries[j.msg]
        BY SMTT(30), <1>1, <1>2, <2>2 DEF JobOK, Job
      <3>2. deliveries[j.msg] \in Nat
        BY <3>1 DEF TypeOK
      <3> QED BY SMTT(30), <2>1, <2>2, <3>1, <3>2 DEF Settleable, DeliveryLimitReached
    <2>5. Handled(c, j, v)
      BY Zenon, <2>2, <2>3, <2>4 DEF Handled
    <2>6. job' = [job EXCEPT ![c][i] = v]
      BY Zenon, <2>2, <2>3
    <2> QED BY Zenon, <1>3, <2>1, <2>3, <2>5, <2>6 DEF HandleEffect
  <1>8. CASE DeadLettered(c, i) \/ DeadLetterFails(c, i)
    <2>1. PICK p \in {"nack", "remove"} :
            /\ job' = [job EXCEPT ![c][i] = Moved(j, p, j.attempt)]
            /\ dead' \in {dead, [dead EXCEPT ![j.msg] = TRUE]}
            /\ p = "remove" => dead' = [dead EXCEPT ![j.msg] = TRUE]
      BY Zenon, <1>8 DEF DeadLettered, DeadLetterFails, Goto
    <2>2. j.phase = "dlq" /\ j.msg \in Message /\ UNCHANGED <<accepted, dlq, ended, deliveries>>
      BY Zenon, <1>2, <1>8 DEF DeadLettered, DeadLetterFails, At
    <2>3. p = "remove" => dead'[j.msg]
      BY Zenon, <2>1, <2>2, <1>3
    <2>4. PICK v \in Job :
            v = Moved(j, p, j.attempt) /\ v.phase = p /\ v.attempt = j.attempt /\ v.msg = j.msg /\ v.count = j.count
      <3>1. p \in Phase /\ j.attempt \in 0..(MaxRetries + 1)
        BY Zenon, <1>0 DEF Phase
      <3>3. PICK v \in Job : IsMoved(j, p, j.attempt, v)
        BY Zenon, <3>1, MovedJob
      <3> QED BY Zenon, <3>1, <3>3 DEF IsMoved
    <2>5. Handled(c, j, v)
      BY Zenon, <2>1, <2>2, <2>3, <2>4 DEF Handled, Settleable
    <2>6. job' = [job EXCEPT ![c][i] = v]
      BY Zenon, <2>1, <2>4
    <2>7. dead' \in [Message -> BOOLEAN] /\ \A m \in Message : dead[m] => dead'[m]
      BY Zenon, <2>1, <2>2, <1>3
    <2> QED BY Zenon, <1>3, <2>2, <2>4, <2>5, <2>6, <2>7 DEF HandleEffect
  <1> QED BY Zenon, <1>4, <1>5, <1>6, <1>7, <1>8 DEF Handle
-----------------------------------------------------------------------------
(* Types.                                                                  *)

\* What Dispatch does to the jobs of c: f names the new ones.
Dispatched(c, S, f, count) ==
    /\ f \in [S -> JobId] /\ count \in [S -> 0..MaxCount]
    /\ \A m \in S : count[m] \in {Capped(n, MaxCount) : n \in Counts(m)}
    /\ \A k \in JobId :
        \/ \E m \in S : f[m] = k /\ job'[c][k] = NewJob(m, count[m])
        \/ (\A m \in S : f[m] # k) /\ job'[c][k] = job[c][k]
    /\ \A d \in Consumer \ {c} : job'[d] = job[d]

LEMMA DispatchStep ==
    ASSUME TypeOK, NEW c \in Consumer, NEW S \in SUBSET Message, Dispatch(c, S)
    PROVE  /\ \E f, count : Dispatched(c, S, f, count)
           /\ job' \in [Consumer -> [JobId -> Job]]
  <1> USE ConstantTypes
  <1>1. PICK f \in Assignments(c, S), count \in [S -> 0..MaxCount] :
          /\ \A m \in S : count[m] \in {Capped(n, MaxCount) : n \in Counts(m)}
          /\ job' = [job EXCEPT ![c] = [i \in JobId |->
                    IF \E m \in S : f[m] = i
                    THEN LET m == CHOOSE m \in S : f[m] = i IN NewJob(m, count[m])
                    ELSE job[c][i]]]
    BY Zenon DEF Dispatch
  <1>2. f \in [S -> JobId]
    BY Zenon, <1>1 DEF Assignments
  <1>3. job \in [Consumer -> [JobId -> Job]]
    BY Zenon DEF TypeOK
  <1>4. ASSUME NEW k \in JobId
        PROVE  /\ \/ \E m \in S : f[m] = k /\ job'[c][k] = NewJob(m, count[m])
                  \/ (\A m \in S : f[m] # k) /\ job'[c][k] = job[c][k]
               /\ job'[c][k] \in Job
    <2>1. CASE \E m \in S : f[m] = k
      <3>1. PICK m \in S : f[m] = k /\ job'[c][k] = NewJob(m, count[m])
        BY Zenon, <1>1, <1>3, <2>1
      <3>2. NewJob(m, count[m]) \in Job
        BY <1>1 DEF NewJob, Job, Phase
      <3> QED BY Zenon, <3>1, <3>2
    <2>2. CASE ~\E m \in S : f[m] = k
      <3>1. job'[c][k] = job[c][k]
        BY Zenon, <1>1, <1>3, <2>2
      <3> QED BY Zenon, <1>3, <2>2, <3>1
    <2> QED BY Zenon, <2>1, <2>2
  <1>5. \A d \in Consumer \ {c} : job'[d] = job[d]
    BY Zenon, <1>1, <1>3
  <1>6. DOMAIN job' = Consumer /\ DOMAIN job'[c] = JobId /\ job' = [d \in Consumer |-> job'[d]]
          /\ job'[c] = [k \in JobId |-> job'[c][k]]
    BY Zenon, <1>1, <1>3
  <1>7. job'[c] \in [JobId -> Job]
    BY Zenon, <1>4, <1>6
  <1>8. job' \in [Consumer -> [JobId -> Job]]
    BY Zenon, <1>3, <1>5, <1>6, <1>7
  <1>9. Dispatched(c, S, f, count)
    BY Zenon, <1>1, <1>2, <1>4, <1>5 DEF Dispatched
  <1> QED BY Zenon, <1>8, <1>9

LEMMA ReleaseType ==
    ASSUME NEW c \in Consumer, free \in [Consumer -> 0..Concurrency], NEW n \in Nat, Release(c, n)
    PROVE  free' \in [Consumer -> 0..Concurrency]
  BY ConstantTypes DEF Release, Capped

LEMMA ForgetType ==
    ASSUME NEW c \in Consumer, NEW i \in JobId, job \in [Consumer -> [JobId -> Job]], Forget(c, i)
    PROVE  job' \in [Consumer -> [JobId -> Job]]
  BY Zenon, NoJobType DEF Forget

LEMMA LeaseType ==
    ASSUME TypeOK, NEW S \in SUBSET Message, Lease(S)
    PROVE  /\ queue' \in [Message -> {"ready", "leased", "gone"}]
           /\ deliveries' \in [Message -> 0..MaxCount]
           /\ \A m \in Message : deliveries[m] <= deliveries'[m]
  BY ConstantTypes DEF Lease, TypeOK

\* A batch fits into the slots the poller holds.
LEMMA BatchSize ==
    ASSUME TypeOK, NEW c \in Consumer, NEW S \in Batches(c)
    PROVE  S \in SUBSET Message /\ taken[c] - Cardinality(S) \in Nat
  <1>1. S \in SUBSET Message /\ Cardinality(S) <= taken[c]
    BY Zenon DEF Batches
  <1>2. Cardinality(S) \in Nat
    BY Zenon, <1>1, FS_Subset, FS_CardinalityType, ConsumerAssumption
  <1> QED BY <1>1, <1>2 DEF TypeOK

LEMMA PollLoopType ==
    ASSUME TypeOK, NEW c \in Consumer, PollLoop(c)
    PROVE  TypeOK'
  <1> USE ConstantTypes
  <1>1. CASE GateWait(c)
    BY Zenon, <1>1 DEF GateWait, TypeOK, pipelineVars, brokerVars, faultVars
  <1>2. CASE LoopEnds(c)
    BY Zenon, <1>2 DEF LoopEnds, TypeOK, pipelineVars, brokerVars, faultVars
  <1>3. CASE Acquire(c)
    <2>1. late' \in [Consumer -> 0..2]
      BY <1>3 DEF Acquire, TypeOK, Capped
    <2>2. free[c] \in 0..Concurrency /\ Capped(free[c], MaxReceive) \in 0..free[c]
      BY DEF TypeOK, Capped
    <2>3. taken' \in [Consumer -> 0..Concurrency] /\ free' \in [Consumer -> 0..Concurrency]
      BY <1>3, <2>2 DEF Acquire, TypeOK
    <2>4. poller' = [poller EXCEPT ![c] = "receive"] /\ UNCHANGED <<pipelineVars, brokerVars, paused, faultVars>>
      BY Zenon, <1>3 DEF Acquire
    <2> QED BY Zenon, <2>1, <2>3, <2>4 DEF TypeOK, pipelineVars, brokerVars, faultVars
  <1>4. CASE AcquireCut(c)
    BY Zenon, <1>4 DEF AcquireCut, TypeOK, pipelineVars, brokerVars, faultVars
  <1>5. CASE Receive(c)
    <2>1. PICK S \in Batches(c) : Poll(c, S)
      BY Zenon, <1>5 DEF Receive
    <2>2. S \in SUBSET Message /\ taken[c] - Cardinality(S) \in Nat
      BY Zenon, BatchSize
    <2>3. free' \in [Consumer -> 0..Concurrency]
      BY Zenon, <2>1, <2>2, ReleaseType DEF Poll, TypeOK
    <2>4. job' \in [Consumer -> [JobId -> Job]]
      BY Zenon, <2>1, <2>2, DispatchStep DEF Poll
    <2>5. /\ queue' \in [Message -> {"ready", "leased", "gone"}]
          /\ deliveries' \in [Message -> 0..MaxCount]
      BY Zenon, <2>1, <2>2, LeaseType DEF Poll
    <2>6. UNCHANGED <<kind, lapses, dlq, ended, accepted, dead, paused, late, faultVars>>
      BY Zenon, <2>1 DEF Poll, Lease, Dispatch
    <2>7. /\ taken' \in [Consumer -> 0..Concurrency]
          /\ poller' = [poller EXCEPT ![c] = "gate"]
      BY <2>1 DEF Poll, TypeOK
    <2> QED BY Zenon, <2>3, <2>4, <2>5, <2>6, <2>7 DEF TypeOK, faultVars
  <1>6. CASE ReceiveFails(c)
    <2>1. PICK S \in Batches(c) : Lease(S)
      BY Zenon, <1>6 DEF ReceiveFails
    <2>2. S \in SUBSET Message
      BY Zenon, BatchSize
    <2>3. taken[c] \in Nat
      BY DEF TypeOK
    <2>4. free' \in [Consumer -> 0..Concurrency]
      BY Zenon, <1>6, <2>3, ReleaseType DEF ReceiveFails, TypeOK
    <2>5. /\ queue' \in [Message -> {"ready", "leased", "gone"}]
          /\ deliveries' \in [Message -> 0..MaxCount]
          /\ UNCHANGED <<kind, lapses>>
      BY Zenon, <2>1, <2>2, LeaseType DEF Lease
    <2>6. /\ taken' \in [Consumer -> 0..Concurrency]
          /\ poller' = [poller EXCEPT ![c] = "gate"]
          /\ UNCHANGED <<pipelineVars, paused, late, faultVars>>
      BY <1>6 DEF ReceiveFails, TypeOK
    <2> QED BY Zenon, <2>4, <2>5, <2>6 DEF TypeOK, pipelineVars, faultVars
  <1>7. CASE Close(c)
    BY Zenon, <1>7 DEF Close, TypeOK, pipelineVars, brokerVars, faultVars
  <1> QED BY Zenon, <1>1, <1>2, <1>3, <1>4, <1>5, <1>6, <1>7 DEF PollLoop

LEMMA WorkerType ==
    ASSUME TypeOK, JobsOK, NEW c \in Consumer, NEW i \in JobId, Worker(c, i) \/ EventPanics(c, i)
    PROVE  TypeOK'
  <1> USE ConstantTypes
  <1>1. CASE Work(c, i)
    <2>1. HandleEffect(c, i)
      BY Zenon, <1>1, HandleStep DEF Work, brokerVars
    <2>2. PICK v \in Job : job' = [job EXCEPT ![c][i] = v]
      BY Zenon, <2>1 DEF HandleEffect
    <2>3. job' \in [Consumer -> [JobId -> Job]]
      BY Zenon, <2>2, OneJob DEF TypeOK
    <2>4. /\ accepted' \in [Message -> BOOLEAN] /\ dead' \in [Message -> BOOLEAN]
          /\ UNCHANGED <<dlq, ended, brokerVars, pollVars, free, faultVars>>
      BY Zenon, <1>1, <2>1 DEF HandleEffect, Work
    <2> QED BY Zenon, <2>3, <2>4 DEF TypeOK, brokerVars, pollVars, faultVars
  <1>2. CASE Settled(c, i) \/ LeftLeased(c, i) \/ EventPanics(c, i)
    <2>1. /\ Forget(c, i) /\ Release(c, 1)
          /\ UNCHANGED <<dlq, ended, accepted, dead, kind, deliveries, lapses, pollVars, crashes, pauses>>
      BY Zenon, <1>2 DEF Settled, LeftLeased, EventPanics, brokerVars, faultVars
    <2>2. job' \in [Consumer -> [JobId -> Job]] /\ free' \in [Consumer -> 0..Concurrency]
      BY Zenon, <2>1, ForgetType, ReleaseType DEF TypeOK
    <2>3. queue' \in [Message -> {"ready", "leased", "gone"}]
      BY Zenon, <1>2 DEF Settled, LeftLeased, EventPanics, brokerVars, TypeOK
    <2>4. panics' \in 0..MaxPanics
      BY <1>2 DEF Settled, LeftLeased, EventPanics, faultVars, TypeOK
    <2>5. orphans' \subseteq Consumer \X Message
      <3>1. CASE Settled(c, i) \/ LeftLeased(c, i)
        BY Zenon, <3>1 DEF Settled, LeftLeased, faultVars, TypeOK
      <3>2. CASE EventPanics(c, i)
        <4>1. job[c][i] \in Job /\ job[c][i].phase # "none" /\ JobOK(c, i)
          BY <3>2 DEF EventPanics, TypeOK, JobsOK
        <4>2. job[c][i].msg \in Message
          BY Zenon, <4>1 DEF JobOK, Job
        <4> QED BY <3>2, <4>2 DEF EventPanics, TypeOK
      <3> QED BY Zenon, <1>2, <3>1, <3>2
    <2> QED BY Zenon, <2>1, <2>2, <2>3, <2>4, <2>5 DEF TypeOK, pollVars
  <1> QED BY Zenon, <1>1, <1>2 DEF Worker

LEMMA ControlType ==
    ASSUME TypeOK, NEW c \in Consumer, Control(c)
    PROVE  TypeOK'
  <1> USE ConstantTypes
  <1>1. CASE Pause(c)
    BY <1>1 DEF Pause, TypeOK, pipelineVars, brokerVars
  <1>2. CASE Resume(c)
    BY <1>2 DEF Resume, TypeOK, pipelineVars, brokerVars, faultVars
  <1>3. CASE Shutdown(c)
    BY Zenon, <1>3 DEF Shutdown, TypeOK, pollVars, brokerVars, faultVars
  <1>4. CASE Crash(c)
    <2>1. job' \in [Consumer -> [JobId -> Job]]
      BY Zenon, <1>4, NoJobType DEF Crash, TypeOK
    <2>2. orphans' \subseteq Consumer \X Message
      BY Zenon, <1>4 DEF Crash, TypeOK
    <2> QED BY <1>4, <2>1, <2>2 DEF Crash, TypeOK, brokerVars
  <1>5. CASE Restart(c)
    BY Zenon, <1>5 DEF Restart, TypeOK, pipelineVars, brokerVars, faultVars
  <1> QED BY Zenon, <1>1, <1>2, <1>3, <1>4, <1>5 DEF Control

LEMMA TypeStep ==
    ASSUME TypeOK, JobsOK, [Next]_vars
    PROVE  TypeOK'
  <1> USE ConstantTypes
  <1>1. CASE \E m \in Message : Expire(m) \/ Lapse(m)
    <2>1. PICK m \in Message : Expire(m) \/ Lapse(m)
      BY Zenon, <1>1
    <2>2. /\ queue' = [queue EXCEPT ![m] = "ready"]
          /\ UNCHANGED <<pipelineVars, kind, deliveries, pollVars, free, faultVars>>
      BY Zenon, <2>1 DEF Expire, Lapse
    <2>3. lapses' \in 0..MaxLapses
      BY <2>1 DEF Expire, Lapse, TypeOK
    <2> QED BY Zenon, <2>2, <2>3 DEF TypeOK, pipelineVars, pollVars, faultVars
  <1>2. CASE UNCHANGED vars
    BY Zenon, <1>2 DEF vars, TypeOK, pipelineVars, brokerVars, pollVars, faultVars
  <1> QED BY Zenon, <1>1, <1>2, PollLoopType, WorkerType, ControlType DEF Next

-----------------------------------------------------------------------------
(* Jobs.                                                                   *)

\* What no step takes back.
Grows ==
    /\ dlq' = dlq
    /\ \A m \in Message : /\ accepted[m] => accepted'[m]
                          /\ dead[m] => dead'[m]
                          /\ deliveries[m] <= deliveries'[m]

LEMMA SettleableGrows ==
    ASSUME TypeOK, TypeOK', Grows, NEW m \in Message, Settleable(m)
    PROVE  Settleable(m)'
  <1>1. deliveries[m] \in Nat /\ deliveries'[m] \in Nat /\ deliveries[m] <= deliveries'[m]
    BY DEF TypeOK, Grows
  <1> QED BY <1>1, ConstantTypes DEF Settleable, Grows, DeliveryLimitReached

\* A job that stays as it is keeps its invariant.
LEMMA KeptJob ==
    ASSUME TypeOK, TypeOK', Grows, NEW c \in Consumer, NEW i \in JobId, JobOK(c, i),
           job'[c][i] = job[c][i], ended[c] => ended'[c]
    PROVE  JobOK(c, i)'
  <1> PICK j \in Job : j = job[c][i]
    BY DEF TypeOK
  <1>1. j.msg # NoMsg => j.msg \in Message
    BY Zenon DEF Job
  <1>2. j.msg # NoMsg => j.count <= deliveries'[j.msg]
    <2> SUFFICES ASSUME j.msg # NoMsg PROVE j.count <= deliveries'[j.msg]
      OBVIOUS
    <2>1. j.count \in Nat /\ deliveries[j.msg] \in Nat /\ deliveries'[j.msg] \in Nat
      BY <1>1, ConstantTypes DEF Job, TypeOK
    <2>2. j.count <= deliveries[j.msg] /\ deliveries[j.msg] <= deliveries'[j.msg]
      BY Zenon, <1>1 DEF JobOK, Grows
    <2> QED BY Zenon, <2>1, <2>2, NatChain
  <1>3. j.phase = "remove" => Settleable(j.msg)'
    <2>1. j.phase = "remove" => j.msg \in Message /\ Settleable(j.msg)
      BY Zenon, <1>1 DEF JobOK
    <2> QED BY Zenon, <2>1, SettleableGrows
  <1> QED BY Zenon, <1>2, <1>3 DEF JobOK

LEMMA NoJobOK ==
    ASSUME NEW c \in Consumer, NEW i \in JobId, job'[c][i] = NoJob
    PROVE  JobOK(c, i)'
  BY DEF JobOK, NoJob

LEMMA GrowsStep ==
    ASSUME TypeOK, TypeOK', JobsOK, [Next]_vars
    PROVE  Grows
  <1>1. ASSUME UNCHANGED <<dlq, accepted, dead, deliveries>>
        PROVE  Grows
    <2>1. \A m \in Message : deliveries[m] \in Nat
      BY ConstantTypes DEF TypeOK
    <2> QED BY <1>1, <2>1 DEF Grows
  <1>2. ASSUME NEW S \in SUBSET Message, Lease(S), UNCHANGED <<dlq, accepted, dead>>
        PROVE  Grows
    BY Zenon, <1>2, LeaseType DEF Grows
  <1>3. CASE \E m \in Message : Expire(m) \/ Lapse(m)
    BY Zenon, <1>1, <1>3 DEF Expire, Lapse, pipelineVars
  <1>4. CASE UNCHANGED vars
    BY Zenon, <1>1, <1>4 DEF vars, pipelineVars, brokerVars
  <1>5. ASSUME NEW c \in Consumer, PollLoop(c) PROVE Grows
    <2>1. CASE GateWait(c) \/ LoopEnds(c) \/ Acquire(c) \/ AcquireCut(c) \/ Close(c)
      BY Zenon, <1>1, <2>1 DEF GateWait, LoopEnds, Acquire, AcquireCut, Close, pipelineVars, brokerVars
    <2>2. CASE Receive(c)
      <3>1. PICK S \in Batches(c) : Poll(c, S)
        BY Zenon, <2>2 DEF Receive
      <3>2. Lease(S) /\ UNCHANGED <<dlq, accepted, dead>>
        BY Zenon, <3>1 DEF Poll, Dispatch
      <3> QED BY Zenon, <1>2, <3>2, BatchSize
    <2>3. CASE ReceiveFails(c)
      <3>1. PICK S \in Batches(c) : Lease(S)
        BY Zenon, <2>3 DEF ReceiveFails
      <3>2. UNCHANGED <<dlq, accepted, dead>>
        BY Zenon, <2>3 DEF ReceiveFails, pipelineVars
      <3> QED BY Zenon, <1>2, <3>1, <3>2, BatchSize
    <2> QED BY Zenon, <1>5, <2>1, <2>2, <2>3 DEF PollLoop
  <1>6. ASSUME NEW c \in Consumer, NEW i \in JobId, Worker(c, i) \/ EventPanics(c, i) PROVE Grows
    <2>1. CASE Work(c, i)
      <3>1. HandleEffect(c, i)
        BY Zenon, <2>1, HandleStep DEF Work, brokerVars
      <3>2. \A m \in Message : deliveries[m] \in Nat
        BY ConstantTypes DEF TypeOK
      <3> QED BY <3>1, <3>2 DEF HandleEffect, Grows
    <2>2. CASE Settled(c, i) \/ LeftLeased(c, i) \/ EventPanics(c, i)
      BY Zenon, <1>1, <2>2 DEF Settled, LeftLeased, EventPanics, brokerVars
    <2> QED BY Zenon, <1>6, <2>1, <2>2 DEF Worker
  <1>7. ASSUME NEW c \in Consumer, Control(c) PROVE Grows
    BY Zenon, <1>1, <1>7 DEF Control, Pause, Resume, Shutdown, Crash, Restart, pipelineVars, brokerVars
  <1> QED BY Zenon, <1>3, <1>4, <1>5, <1>6, <1>7 DEF Next

\* The count a new job is given is at most the broker's.
LEMMA DispatchCount ==
    ASSUME TypeOK, TypeOK', NEW S \in SUBSET Message, Lease(S), NEW m \in S,
           NEW n \in {Capped(k, MaxCount) : k \in Counts(m)}
    PROVE  n \in Nat /\ n <= deliveries'[m]
  <1>1. deliveries[m] \in 0..MaxCount /\ MaxCount \in Nat /\ MaxCount > 0
    BY Zenon, ConstantTypes DEF TypeOK
  <1>2. deliveries'[m] = IF deliveries[m] < MaxCount THEN deliveries[m] + 1 ELSE deliveries[m]
    BY Zenon DEF Lease
  <1>3. PICK k \in {deliveries[m] + 1, 1} : n = Capped(k, MaxCount)
    BY Zenon DEF Counts
  <1> QED BY <1>1, <1>2, <1>3 DEF Capped

LEMMA JobsStep ==
    ASSUME TypeOK, TypeOK', JobsOK, [Next]_vars
    PROVE  JobsOK'
  <1>1. Grows
    BY Zenon, GrowsStep
  <1>2. \A c \in Consumer, i \in JobId : JobOK(c, i)
    BY Zenon DEF JobsOK
  <1>3. ASSUME UNCHANGED job, \A c \in Consumer : ended[c] => ended'[c]
        PROVE  JobsOK'
    BY Zenon, <1>1, <1>2, <1>3, KeptJob DEF JobsOK
  <1>4. ASSUME NEW c \in Consumer, NEW i \in JobId, NEW v \in Job, job' = [job EXCEPT ![c][i] = v],
               UNCHANGED ended, JobOK(c, i)'
        PROVE  JobsOK'
    <2>1. ASSUME NEW d \in Consumer, NEW k \in JobId, ~(d = c /\ k = i)
          PROVE  JobOK(d, k)'
      <3>1. job'[d][k] = job[d][k]
        BY <1>4, <2>1, OneJob DEF TypeOK
      <3> QED BY Zenon, <1>1, <1>2, <1>4, <3>1, KeptJob
    <2> QED BY Zenon, <1>4, <2>1 DEF JobsOK
  <1>5. ASSUME NEW c \in Consumer, NEW i \in JobId, Forget(c, i), UNCHANGED ended
        PROVE  JobsOK'
    <2>1. job'[c][i] = NoJob
      BY <1>5, NoJobType, OneJob DEF Forget, TypeOK
    <2> QED BY Zenon, <1>4, <1>5, <2>1, NoJobOK, NoJobType DEF Forget
  <1>6. CASE \E m \in Message : Expire(m) \/ Lapse(m)
    BY Zenon, <1>3, <1>6 DEF Expire, Lapse, pipelineVars
  <1>7. CASE UNCHANGED vars
    BY Zenon, <1>3, <1>7 DEF vars, pipelineVars
  <1>8. ASSUME NEW c \in Consumer, PollLoop(c) PROVE JobsOK'
    <2>1. CASE GateWait(c) \/ LoopEnds(c) \/ Acquire(c) \/ AcquireCut(c) \/ Close(c) \/ ReceiveFails(c)
      <3>1. UNCHANGED pipelineVars
        BY Zenon, <2>1 DEF GateWait, LoopEnds, Acquire, AcquireCut, Close, ReceiveFails
      <3> QED BY Zenon, <1>3, <3>1 DEF pipelineVars
    <2>2. CASE Receive(c)
      <3>1. PICK S \in Batches(c) : Poll(c, S)
        BY <2>2 DEF Receive
      <3>2. Lease(S) /\ Dispatch(c, S) /\ UNCHANGED ended /\ S \in SUBSET Message
        BY Zenon, <3>1, BatchSize DEF Poll, Dispatch
      <3>3. PICK f, count : Dispatched(c, S, f, count)
        BY Zenon, <3>2, DispatchStep
      <3>4. ASSUME NEW d \in Consumer, NEW k \in JobId PROVE JobOK(d, k)'
        <4>1. CASE job'[d][k] = job[d][k]
          BY Zenon, <1>1, <1>2, <3>2, <4>1, KeptJob
        <4>2. CASE d = c /\ \E m \in S : f[m] = k /\ job'[c][k] = NewJob(m, count[m])
          <5>1. PICK m \in S : job'[c][k] = NewJob(m, count[m])
            BY Zenon, <4>2
          <5>2. count[m] \in Nat /\ count[m] <= deliveries'[m]
            BY Zenon, <3>2, <3>3, DispatchCount DEF Dispatched
          <5>3. m \in Message /\ NoMsg \notin Message
            BY Zenon, <3>2, ConstantTypes
          <5>4. job'[c][k].phase = "queued" /\ job'[c][k].msg = m /\ job'[c][k].count = count[m]
            BY <5>1, NewJobFields
          <5>5. job'[c][k].msg # NoMsg /\ job'[c][k].count <= deliveries'[job'[c][k].msg]
            BY Zenon, <5>2, <5>3, <5>4
          <5> QED BY Zenon, <4>2, <5>4, <5>5 DEF JobOK
        <4> QED BY Zenon, <3>3, <4>1, <4>2 DEF Dispatched
      <3> QED BY Zenon, <3>4 DEF JobsOK
    <2> QED BY Zenon, <1>8, <2>1, <2>2 DEF PollLoop
  <1>9. ASSUME NEW c \in Consumer, NEW i \in JobId, Worker(c, i) \/ EventPanics(c, i) PROVE JobsOK'
    <2>1. CASE Work(c, i)
      <3>1. HandleEffect(c, i)
        BY <2>1, HandleStep DEF Work, brokerVars
      <3>2. PICK v \in Job : job' = [job EXCEPT ![c][i] = v] /\ Handled(c, job[c][i], v)
        BY Zenon, <3>1 DEF HandleEffect
      <3>3. UNCHANGED <<ended, deliveries>>
        BY Zenon, <3>1 DEF HandleEffect
      <3>4. job'[c][i] = v
        BY <3>2, OneJob DEF TypeOK
      <3>5. JobOK(c, i)'
        BY SMTT(30), <1>2, <3>2, <3>3, <3>4 DEF Handled, JobOK
      <3> QED BY Zenon, <1>4, <3>2, <3>3, <3>5
    <2>2. CASE Settled(c, i) \/ LeftLeased(c, i) \/ EventPanics(c, i)
      <3>1. Forget(c, i) /\ UNCHANGED ended
        BY Zenon, <2>2 DEF Settled, LeftLeased, EventPanics
      <3> QED BY Zenon, <1>5, <3>1
    <2> QED BY Zenon, <1>9, <2>1, <2>2 DEF Worker
  <1>10. ASSUME NEW c \in Consumer, Control(c) PROVE JobsOK'
    <2>1. CASE Pause(c) \/ Resume(c) \/ Restart(c)
      BY Zenon, <1>3, <2>1 DEF Pause, Resume, Restart, pipelineVars
    <2>2. CASE Shutdown(c)
      <3>1. UNCHANGED job /\ \A d \in Consumer : ended[d] => ended'[d]
        BY Zenon, <2>2 DEF Shutdown, TypeOK
      <3> QED BY Zenon, <1>3, <3>1
    <2>3. CASE Crash(c)
      <3>1. \A k \in JobId : job'[c][k] = NoJob
        BY Zenon, <2>3 DEF Crash, TypeOK
      <3>2. \A d \in Consumer \ {c} : job'[d] = job[d] /\ ended'[d] = ended[d]
        BY <2>3 DEF Crash, TypeOK
      <3>3. ASSUME NEW d \in Consumer, NEW k \in JobId PROVE JobOK(d, k)'
        <4>1. CASE d = c
          BY Zenon, <3>1, <4>1, NoJobOK
        <4>2. CASE d # c
          BY Zenon, <1>1, <1>2, <3>2, <4>2, KeptJob
        <4> QED BY Zenon, <4>1, <4>2
      <3> QED BY Zenon, <3>3 DEF JobsOK
    <2> QED BY Zenon, <1>10, <2>1, <2>2, <2>3 DEF Control
  <1> QED BY Zenon, <1>6, <1>7, <1>8, <1>9, <1>10 DEF Next
-----------------------------------------------------------------------------
(* Theorems.                                                               *)

IInv == TypeOK /\ JobsOK /\ NothingLost

LEMMA InitIInv == Init => IInv
  <1> SUFFICES ASSUME Init PROVE IInv
    OBVIOUS
  <1> USE ConstantTypes
  <1>1. TypeOK
    BY NoJobType DEF Init, PipelineInit, TypeOK
  <1>2. JobsOK
    BY Zenon DEF Init, PipelineInit, JobsOK, JobOK, NoJob
  <1>3. NothingLost
    BY Zenon DEF Init, NothingLost
  <1> QED BY Zenon, <1>1, <1>2, <1>3 DEF IInv

LEMMA NothingLostStep ==
    ASSUME IInv, TypeOK', [Next]_vars
    PROVE  NothingLost'
  <1>1. Grows /\ TypeOK
    BY Zenon, GrowsStep DEF IInv
  <1>2. \A m \in Message : queue[m] = "gone" => Settleable(m)
    BY Zenon DEF IInv, NothingLost, Settleable
  <1>3. ASSUME NEW m \in Message, queue'[m] = "gone", queue[m] # "gone"
        PROVE  Settleable(m)
    <2>1. PICK c \in Consumer, i \in JobId : Settled(c, i)
      <3>1. ASSUME NEW n \in Message, Expire(n) \/ Lapse(n) PROVE FALSE
        BY Zenon, <1>1, <1>3, <3>1 DEF Expire, Lapse, TypeOK
      <3>2. ASSUME NEW S, Lease(S) PROVE FALSE
        BY Zenon, <1>3, <3>2 DEF Lease
      <3>3. ASSUME UNCHANGED brokerVars PROVE FALSE
        BY Zenon, <1>3, <3>3 DEF brokerVars
      <3>4. ASSUME NEW c \in Consumer, PollLoop(c) PROVE FALSE
        BY Zenon, <3>2, <3>3, <3>4 DEF PollLoop, GateWait, LoopEnds, Acquire, AcquireCut, Receive, Poll, ReceiveFails, Close
      <3>5. ASSUME NEW c \in Consumer, Control(c) PROVE FALSE
        BY Zenon, <3>3, <3>5 DEF Control, Pause, Resume, Shutdown, Crash, Restart
      <3>6. ASSUME NEW c \in Consumer, NEW i \in JobId, Work(c, i) \/ LeftLeased(c, i) \/ EventPanics(c, i)
            PROVE  FALSE
        BY Zenon, <3>3, <3>6 DEF Work, LeftLeased, EventPanics
      <3>7. ~UNCHANGED vars
        BY Zenon, <3>3 DEF vars
      <3> QED BY Zenon, <3>1, <3>4, <3>5, <3>6, <3>7 DEF Next, Worker
    <2>2. queue' = [queue EXCEPT ![job[c][i].msg] = "gone"] /\ At(c, i, "remove")
      BY Zenon, <2>1 DEF Settled
    <2>3. job[c][i].msg = m
      BY Zenon, <1>1, <1>3, <2>2 DEF TypeOK
    <2> QED BY Zenon, <2>2, <2>3 DEF IInv, JobsOK, JobOK, At
  <1>4. \A m \in Message : queue'[m] = "gone" => Settleable(m)'
    BY Zenon, <1>1, <1>2, <1>3, SettleableGrows
  <1> QED BY Zenon, <1>4 DEF NothingLost, Settleable

LEMMA InductiveIInv == Spec => []IInv
  <1>1. IInv /\ [Next]_vars => IInv'
    BY Zenon, TypeStep, JobsStep, NothingLostStep DEF IInv
  <1> QED BY InitIInv, <1>1, PTL DEF Spec

\* Every variable keeps its type, whatever the consumers, the broker and the
\* faults do: in particular Slots never holds more than Concurrency.
THEOREM TypeCorrect == Spec => []TypeOK
  <1>1. IInv => TypeOK
    BY Zenon DEF IInv
  <1> QED BY InductiveIInv, <1>1, PTL

\* A message leaves the queue only accepted, dead-lettered or out of deliveries
\* (settleNack and the providers' handle).
THEOREM NoMessageLost == Spec => []NothingLost
  <1>1. IInv => NothingLost
    BY Zenon DEF IInv
  <1> QED BY InductiveIInv, <1>1, PTL

\* A job changes by a step of the pipeline, by its end, or by a dispatch.
LEMMA JobChange ==
    ASSUME TypeOK, JobsOK, Next, NEW d \in Consumer, NEW k \in JobId
    PROVE  \/ job'[d][k] = job[d][k]
           \/ job'[d][k].phase \in {"none", "queued"}
           \/ \E v \in Job : v = job'[d][k] /\ Handled(d, job[d][k], v)
  <1>1. ASSUME NEW c \in Consumer, NEW i \in JobId, Forget(c, i)
        PROVE  job'[d][k] = job[d][k] \/ job'[d][k].phase = "none"
    BY <1>1, NoJobType, OneJob DEF Forget, NoJob, TypeOK
  <1>2. CASE \E m \in Message : Expire(m) \/ Lapse(m)
    BY Zenon, <1>2 DEF Expire, Lapse, pipelineVars
  <1>3. ASSUME NEW c \in Consumer, PollLoop(c)
        PROVE  job'[d][k] = job[d][k] \/ job'[d][k].phase = "queued"
    <2>1. CASE Receive(c)
      <3>1. PICK S \in Batches(c) : Poll(c, S)
        BY Zenon, <2>1 DEF Receive
      <3>2. PICK f, count : Dispatched(c, S, f, count)
        BY Zenon, <3>1, BatchSize, DispatchStep DEF Poll
      <3>3. CASE d = c
        <4>1. \/ job'[d][k] = job[d][k]
              \/ \E m \in S : job'[d][k] = NewJob(m, count[m])
          BY Zenon, <3>2, <3>3 DEF Dispatched
        <4>2. ASSUME NEW m \in S, job'[d][k] = NewJob(m, count[m]) PROVE job'[d][k].phase = "queued"
          BY <4>2, NewJobFields
        <4> QED BY Zenon, <4>1, <4>2
      <3>4. CASE d # c
        BY Zenon, <3>2, <3>4 DEF Dispatched
      <3> QED BY Zenon, <3>3, <3>4
    <2>2. CASE ~Receive(c)
      BY Zenon, <1>3, <2>2 DEF PollLoop, GateWait, LoopEnds, Acquire, AcquireCut, Close, ReceiveFails, pipelineVars
    <2> QED BY Zenon, <2>1, <2>2
  <1>4. ASSUME NEW c \in Consumer, NEW i \in JobId, Worker(c, i) \/ EventPanics(c, i)
        PROVE  \/ job'[d][k] = job[d][k]
               \/ job'[d][k].phase = "none"
               \/ \E v \in Job : v = job'[d][k] /\ Handled(d, job[d][k], v)
    <2>1. CASE Work(c, i)
      <3>1. HandleEffect(c, i)
        BY Zenon, <2>1, HandleStep DEF Work, brokerVars
      <3>2. PICK v \in Job : job' = [job EXCEPT ![c][i] = v] /\ Handled(c, job[c][i], v)
        BY Zenon, <3>1 DEF HandleEffect
      <3>3. job'[d][k] = IF d = c /\ k = i THEN v ELSE job[d][k]
        BY <3>2, OneJob DEF TypeOK
      <3>4. CASE d = c /\ k = i
        BY Zenon, <3>2, <3>3, <3>4
      <3> QED BY Zenon, <3>3, <3>4
    <2>2. CASE Settled(c, i) \/ LeftLeased(c, i) \/ EventPanics(c, i)
      BY Zenon, <1>1, <2>2 DEF Settled, LeftLeased, EventPanics
    <2> QED BY Zenon, <1>4, <2>1, <2>2 DEF Worker
  <1>5. ASSUME NEW c \in Consumer, Control(c)
        PROVE  job'[d][k] = job[d][k] \/ job'[d][k].phase = "none"
    <2>1. CASE Crash(c)
      BY Zenon, <2>1 DEF Crash, NoJob, TypeOK
    <2>2. CASE ~Crash(c)
      BY Zenon, <1>5, <2>2 DEF Control, Pause, Resume, Shutdown, Restart, pipelineVars
    <2> QED BY Zenon, <2>1, <2>2
  <1> QED BY Zenon, <1>2, <1>3, <1>4, <1>5 DEF Next

\* Only a delivery whose MaxRetries + 1 attempts all failed is dead-lettered
\* (Handle checks ctx.Err before settleNack).
THEOREM DeadLetterOnlyExhausted == Spec => DeadLetterExhausted
  <1>1. ASSUME IInv, Next, NEW c \in Consumer, NEW i \in JobId, At(c, i, "nacked"), At(c, i, "dlq")'
        PROVE  job[c][i].attempt = MaxRetries + 1
    <2>1. PICK v \in Job : v = job'[c][i] /\ Handled(c, job[c][i], v)
      BY Zenon, <1>1, JobChange DEF IInv, At
    <2> QED BY Zenon, <1>1, <2>1 DEF Handled, At
  <1>2. IInv /\ [Next]_vars =>
          [\A c \in Consumer, i \in JobId :
            At(c, i, "nacked") /\ At(c, i, "dlq")' => job[c][i].attempt = MaxRetries + 1]_vars
    BY Zenon, <1>1
  <1> QED BY InductiveIInv, <1>2, PTL DEF Spec, DeadLetterExhausted
-----------------------------------------------------------------------------
(* One job per message.                                                    *)

Named(c, i) == job[c][i].msg # NoMsg

\* While no lease lapsed, the message of a job is leased, and to this job only.
Exclusive ==
    lapses = 0 =>
        /\ \A c \in Consumer, i \in JobId : Named(c, i) => queue[job[c][i].msg] = "leased"
        /\ HandledOnce

\* Steps that give no job a new message and no leased message of a job away.
LEMMA ExclusiveKept ==
    ASSUME TypeOK, Exclusive, lapses' = lapses,
           \A c \in Consumer, i \in JobId : job'[c][i].msg \in {job[c][i].msg, NoMsg},
           \A c \in Consumer, i \in JobId :
              Named(c, i)' /\ queue[job[c][i].msg] = "leased" => queue'[job[c][i].msg] = "leased"
    PROVE  Exclusive'
  <1>1. ASSUME lapses = 0, NEW c \in Consumer, NEW i \in JobId, Named(c, i)'
        PROVE  job'[c][i].msg = job[c][i].msg /\ Named(c, i) /\ queue'[job'[c][i].msg] = "leased"
    <2>1. job'[c][i].msg = job[c][i].msg
      BY Zenon, <1>1 DEF Named
    <2>2. Named(c, i)
      BY Zenon, <1>1, <2>1 DEF Named
    <2> QED BY Zenon, <1>1, <2>1, <2>2 DEF Exclusive
  <1>2. ASSUME lapses = 0, NEW c \in Consumer, NEW d \in Consumer, NEW i \in JobId, NEW j \in JobId,
               job'[c][i].msg = job'[d][j].msg, job'[c][i].msg # NoMsg
        PROVE  c = d /\ i = j
    <2>1. job'[c][i].msg = job[c][i].msg /\ job'[d][j].msg = job[d][j].msg
      BY Zenon, <1>1, <1>2 DEF Named
    <2>2. HandledOnce /\ job[c][i].msg = job[d][j].msg /\ job[c][i].msg # NoMsg
      BY Zenon, <1>2, <2>1 DEF Exclusive
    <2> QED BY <1>2, <2>2 DEF HandledOnce
  <1>3. lapses = 0 => HandledOnce'
    BY <1>2 DEF HandledOnce
  <1> QED BY Zenon, <1>1, <1>3 DEF Exclusive

LEMMA ExclusiveDispatch ==
    ASSUME TypeOK, TypeOK', Exclusive, NEW c \in Consumer, NEW S \in Batches(c), Poll(c, S)
    PROVE  Exclusive'
  <1>1. S \in SUBSET Message /\ Lease(S) /\ lapses' = lapses
    BY Zenon, BatchSize DEF Poll, Lease
  <1>2. PICK f, count : Dispatched(c, S, f, count)
    BY Zenon, <1>1, DispatchStep DEF Poll
  <1>3. \A m \in S : queue[m] = "ready"
    BY Zenon DEF Batches, Deliverable
  <1>4. \A m \in Message : queue'[m] = IF m \in S THEN "leased" ELSE queue[m]
    BY Zenon, <1>1 DEF Lease
  <1>5. \A d \in Consumer, k \in JobId :
          \/ job'[d][k].msg = job[d][k].msg
          \/ d = c /\ job'[d][k].msg \in S /\ f[job'[d][k].msg] = k
    <2> SUFFICES ASSUME NEW d \in Consumer, NEW k \in JobId
                 PROVE  \/ job'[d][k].msg = job[d][k].msg
                        \/ d = c /\ job'[d][k].msg \in S /\ f[job'[d][k].msg] = k
      OBVIOUS
    <2>1. CASE d = c
      <3>1. \/ job'[d][k] = job[d][k]
            \/ \E m \in S : f[m] = k /\ job'[d][k] = NewJob(m, count[m])
        BY Zenon, <1>2, <2>1 DEF Dispatched
      <3>2. ASSUME NEW m \in S, job'[d][k] = NewJob(m, count[m]) PROVE job'[d][k].msg = m
        BY Zenon, <3>2, NewJobFields
      <3> QED BY Zenon, <2>1, <3>1, <3>2
    <2>2. CASE d # c
      BY Zenon, <1>2, <2>2 DEF Dispatched
    <2> QED BY Zenon, <2>1, <2>2
  <1>6. \A d \in Consumer, k \in JobId : job[d][k].msg \in Message \cup {NoMsg}
    BY DEF TypeOK, Job
  <1> SUFFICES ASSUME lapses = 0
               PROVE  /\ \A d \in Consumer, k \in JobId : Named(d, k)' => queue'[job'[d][k].msg] = "leased"
                      /\ HandledOnce'
    BY Zenon, <1>1 DEF Exclusive
  <1>7. \A d \in Consumer, k \in JobId : Named(d, k) => queue[job[d][k].msg] = "leased"
    BY Zenon DEF Exclusive
  <1>8. \A d \in Consumer, k \in JobId : job[d][k].msg \notin S
    BY Zenon, <1>1, <1>3, <1>7, ConstantTypes DEF Named
  <1>9. \A d \in Consumer, k \in JobId : Named(d, k)' => queue'[job'[d][k].msg] = "leased"
    <2> SUFFICES ASSUME NEW d \in Consumer, NEW k \in JobId, Named(d, k)'
                 PROVE  queue'[job'[d][k].msg] = "leased"
      OBVIOUS
    <2>1. CASE job'[d][k].msg = job[d][k].msg
      <3>1. PICK m \in Message : m = job[d][k].msg /\ queue[m] = "leased"
        BY Zenon, <1>6, <1>7, <2>1 DEF Named
      <3> QED BY Zenon, <1>4, <2>1, <3>1
    <2>2. CASE job'[d][k].msg \in S
      BY Zenon, <1>1, <1>4, <2>2
    <2> QED BY Zenon, <1>5, <2>1, <2>2
  <1>10. HandledOnce'
    BY <1>1, <1>5, <1>8 DEF HandledOnce, Exclusive
  <1> QED BY Zenon, <1>9, <1>10

LEMMA ExclusiveStep ==
    ASSUME TypeOK, TypeOK', JobsOK, Exclusive, [Next]_vars
    PROVE  Exclusive'
  <1>1. ASSUME UNCHANGED <<job, queue, lapses>> PROVE Exclusive'
    BY Zenon, <1>1, ExclusiveKept DEF Named
  <1>2. ASSUME NEW c \in Consumer, NEW i \in JobId, Forget(c, i), lapses' = lapses
        PROVE  /\ \A d \in Consumer, k \in JobId : job'[d][k].msg \in {job[d][k].msg, NoMsg}
               /\ job'[c][i].msg = NoMsg
    <2>1. \A d \in Consumer, k \in JobId : job'[d][k] = IF d = c /\ k = i THEN NoJob ELSE job[d][k]
      <3>1. job \in [Consumer -> [JobId -> Job]] /\ job' = [job EXCEPT ![c][i] = NoJob]
        BY Zenon, <1>2 DEF Forget, TypeOK
      <3> QED BY Zenon, <3>1, NoJobType, OneJob
    <2>2. NoJob.msg = NoMsg
      BY Zenon DEF NoJob
    <2> QED BY Zenon, <2>1, <2>2
  <1>3. ASSUME NEW m \in Message, Expire(m) PROVE Exclusive'
    <2>1. \A c \in Consumer, i \in JobId : job[c][i].msg # m
      BY Zenon, <1>3 DEF Expire, Renewed, Handling
    <2>2. queue' = [queue EXCEPT ![m] = "ready"] /\ UNCHANGED <<job, lapses>>
      BY Zenon, <1>3 DEF Expire, pipelineVars
    <2>3. \A n \in Message : n # m => queue'[n] = queue[n]
      BY Zenon, <2>2 DEF TypeOK
    <2>4. \A c \in Consumer, i \in JobId : job[c][i].msg \in Message \cup {NoMsg}
      BY DEF TypeOK, Job
    <2>5. \A c \in Consumer, i \in JobId :
            Named(c, i)' /\ queue[job[c][i].msg] = "leased" => queue'[job[c][i].msg] = "leased"
      BY Zenon, <2>1, <2>2, <2>3, <2>4 DEF Named
    <2> QED BY Zenon, <2>2, <2>5, ExclusiveKept
  <1>4. ASSUME NEW m \in Message, Lapse(m) PROVE Exclusive'
    BY <1>4 DEF Lapse, Exclusive, TypeOK
  <1>5. ASSUME NEW c \in Consumer, PollLoop(c) PROVE Exclusive'
    <2>1. CASE Receive(c)
      BY Zenon, <2>1, ExclusiveDispatch DEF Receive
    <2>2. CASE ReceiveFails(c)
      <3>1. PICK S \in Batches(c) : Lease(S)
        BY Zenon, <2>2 DEF ReceiveFails
      <3>2. \A m \in Message : queue[m] = "leased" => queue'[m] = "leased"
        BY Zenon, <3>1 DEF Lease
      <3>3. UNCHANGED <<job, lapses>>
        BY Zenon, <2>2, <3>1 DEF ReceiveFails, Lease, pipelineVars
      <3>4. \A d \in Consumer, k \in JobId : job[d][k].msg \in Message \cup {NoMsg}
        BY DEF TypeOK, Job
      <3> QED BY Zenon, <3>2, <3>3, <3>4, ExclusiveKept DEF Named
    <2>3. CASE GateWait(c) \/ LoopEnds(c) \/ Acquire(c) \/ AcquireCut(c) \/ Close(c)
      BY Zenon, <1>1, <2>3 DEF GateWait, LoopEnds, Acquire, AcquireCut, Close, pipelineVars, brokerVars
    <2> QED BY Zenon, <1>5, <2>1, <2>2, <2>3 DEF PollLoop
  <1>6. ASSUME NEW c \in Consumer, NEW i \in JobId, Work(c, i) PROVE Exclusive'
    <2>1. HandleEffect(c, i) /\ UNCHANGED <<queue, lapses>>
      BY Zenon, <1>6, HandleStep DEF Work, brokerVars
    <2>2. PICK v \in Job : job' = [job EXCEPT ![c][i] = v] /\ v.msg = job[c][i].msg
      BY Zenon, <2>1 DEF HandleEffect, Handled
    <2>3. \A d \in Consumer, k \in JobId : job'[d][k].msg = job[d][k].msg
      BY <2>2, OneJob DEF TypeOK
    <2> QED BY Zenon, <2>1, <2>3, ExclusiveKept DEF Named
  <1>7. ASSUME NEW c \in Consumer, NEW i \in JobId, LeftLeased(c, i) \/ EventPanics(c, i) PROVE Exclusive'
    <2>1. Forget(c, i) /\ UNCHANGED <<queue, lapses>>
      BY Zenon, <1>7 DEF LeftLeased, EventPanics, brokerVars
    <2> QED BY Zenon, <1>2, <2>1, ExclusiveKept DEF Named
  <1>8. ASSUME NEW c \in Consumer, NEW i \in JobId, Settled(c, i) PROVE Exclusive'
    <2>1. Forget(c, i) /\ lapses' = lapses /\ queue' = [queue EXCEPT ![job[c][i].msg] = "gone"]
      BY Zenon, <1>8 DEF Settled
    <2>2. CASE lapses # 0
      BY Zenon, <2>1, <2>2 DEF Exclusive
    <2>3. CASE lapses = 0
      <3>1. ASSUME NEW d \in Consumer, NEW k \in JobId, Named(d, k)', queue[job[d][k].msg] = "leased"
            PROVE  queue'[job[d][k].msg] = "leased"
        <4>1. job[d][k].msg # NoMsg /\ ~(d = c /\ k = i)
          BY Zenon, <1>2, <2>1, <3>1 DEF Named
        <4>2. job[d][k].msg # job[c][i].msg
          BY <2>3, <4>1 DEF Exclusive, HandledOnce
        <4>3. job[d][k].msg \in Message
          BY <4>1 DEF TypeOK, Job
        <4> QED BY <2>1, <3>1, <4>2, <4>3 DEF TypeOK
      <3> QED BY Zenon, <1>2, <2>1, <3>1, ExclusiveKept
    <2> QED BY Zenon, <2>2, <2>3
  <1>9. ASSUME NEW c \in Consumer, Control(c) PROVE Exclusive'
    <2>1. CASE Crash(c)
      <3>1. \A d \in Consumer, k \in JobId : job'[d][k].msg \in {job[d][k].msg, NoMsg}
        BY Zenon, <2>1 DEF Crash, NoJob, TypeOK
      <3>2. UNCHANGED <<queue, lapses>>
        BY Zenon, <2>1 DEF Crash, brokerVars
      <3> QED BY Zenon, <3>1, <3>2, ExclusiveKept
    <2>2. CASE ~Crash(c)
      BY Zenon, <1>1, <1>9, <2>2 DEF Control, Pause, Resume, Shutdown, Restart, pipelineVars, brokerVars
    <2> QED BY Zenon, <2>1, <2>2
  <1>10. CASE UNCHANGED vars
    BY Zenon, <1>1, <1>10 DEF vars, pipelineVars, brokerVars
  <1> QED BY Zenon, <1>3, <1>4, <1>5, <1>6, <1>7, <1>8, <1>9, <1>10 DEF Next, Worker

\* While the renewals hold, no two jobs, of one consumer or of several, work on
\* the same message (KeepAlive runs from the receipt to the settling).
THEOREM OneJobPerMessage == Spec => []HandledOnce
  <1>1. Init => Exclusive
    BY DEF Init, PipelineInit, Exclusive, HandledOnce, Named, NoJob
  <1>2. IInv /\ IInv' /\ Exclusive /\ [Next]_vars => Exclusive'
    BY Zenon, ExclusiveStep DEF IInv
  <1>3. Exclusive => HandledOnce
    BY Zenon DEF Exclusive, HandledOnce
  <1> QED BY InductiveIInv, <1>1, <1>2, <1>3, PTL DEF Spec
-----------------------------------------------------------------------------
(* Slots and the gate.                                                     *)

\* A poller holds slots only while it receives; while the gate is closed it has
\* begun no receive, or the one it had passed the gate for.
Slotted(c) ==
    /\ free[c] + taken[c] + Cardinality(Jobs(c)) = Concurrency
    /\ poller[c] # "receive" => taken[c] = 0
    /\ paused[c] => late[c] = 0 \/ (late[c] = 1 /\ poller[c] # "slots")

AllSlotted == \A c \in Consumer : Slotted(c)

LEMMA JobsCounted ==
    ASSUME NEW c \in Consumer
    PROVE  IsFiniteSet(Jobs(c)) /\ Cardinality(Jobs(c)) \in Nat
<1>1. Jobs(c) \in SUBSET JobId /\ IsFiniteSet(JobId)
  BY Zenon, ConsumerAssumption DEF Jobs
<1> QED
  BY Zenon, <1>1, FS_Subset, FS_CardinalityType

\* A consumer none of whose parts changes.
LEMMA SlottedKept ==
    ASSUME NEW d \in Consumer, Slotted(d), Jobs(d)' = Jobs(d), free'[d] = free[d], taken'[d] = taken[d],
           poller'[d] = poller[d], paused'[d] = paused[d], late'[d] = late[d]
    PROVE  Slotted(d)'
  BY Zenon DEF Slotted

LEMMA SameJobs ==
    ASSUME NEW d \in Consumer, job'[d] = job[d]
    PROVE  Jobs(d)' = Jobs(d)
  BY Zenon DEF Jobs, At

\* A dispatch gives every message of the batch a job of its own.
LEMMA DispatchCounts ==
    ASSUME TypeOK, NEW c \in Consumer, NEW S \in SUBSET Message, Dispatch(c, S)
    PROVE  /\ Cardinality(Jobs(c)') = Cardinality(Jobs(c)) + Cardinality(S)
           /\ \A d \in Consumer \ {c} : Jobs(d)' = Jobs(d)
<1>1. PICK f \in Assignments(c, S), count \in [S -> 0..MaxCount] :
        job' = [job EXCEPT ![c] = [i \in JobId |->
                  IF \E m \in S : f[m] = i
                  THEN LET m == CHOOSE m \in S : f[m] = i IN NewJob(m, count[m])
                  ELSE job[c][i]]]
  BY Zenon DEF Dispatch
<1>2. /\ f \in [S -> JobId] /\ \A m \in S : f[m] \notin Jobs(c)
      /\ \A m, n \in S : f[m] = f[n] => m = n
  BY Zenon, <1>1 DEF Assignments
<1>3. job \in [Consumer -> [JobId -> Job]]
  BY Zenon DEF TypeOK
<1> DEFINE I == {f[m] : m \in S}
<1>4. ASSUME NEW k \in JobId PROVE k \in Jobs(c)' <=> k \in Jobs(c) \/ k \in I
  <2>1. CASE \E m \in S : f[m] = k
    <3>1. PICK m : job'[c][k] = NewJob(m, count[m])
      BY Zenon, <1>1, <1>3, <2>1
    <3>2. NewJob(m, count[m]).phase = "queued"
      BY DEF NewJob
    <3> QED
      BY Zenon, <2>1, <3>1, <3>2 DEF Jobs, At
  <2>2. CASE ~\E m \in S : f[m] = k
    <3>1. job'[c][k] = job[c][k]
      BY Zenon, <1>1, <1>3, <2>2
    <3> QED
      BY Zenon, <2>2, <3>1 DEF Jobs, At
  <2> QED
    BY Zenon, <2>1, <2>2
<1>5. Jobs(c)' = Jobs(c) \cup I
  <2>1. I \subseteq JobId
    BY Zenon, <1>2
  <2>2. Jobs(c) \subseteq JobId /\ Jobs(c)' \subseteq JobId
    BY Zenon DEF Jobs
  <2> HIDE DEF I
  <2> QED
    BY Zenon, <1>4, <2>1, <2>2
<1>6. IsFiniteSet(S) /\ Cardinality(S) \in Nat
  BY Zenon, FS_Subset, FS_CardinalityType, ConsumerAssumption
<1>7. IsFiniteSet(I) /\ Cardinality(I) = Cardinality(S)
  <2>1. f \in [S -> I] /\ \A t \in I : \E m \in S : f[m] = t
    BY Zenon, <1>2
  <2> HIDE DEF I
  <2>2. f \in Bijection(S, I)
    BY Zenon, <1>2, <2>1 DEF Bijection, Injection, Surjection, IsInjective
  <2> QED
    BY Zenon, <1>6, <2>2, FS_Bijection DEF ExistsBijection
<1>8. Jobs(c) \cap I = {}
  BY Zenon, <1>2
<1> HIDE DEF I
<1>9. Cardinality(Jobs(c) \cup I) = Cardinality(Jobs(c)) + Cardinality(I) - Cardinality(Jobs(c) \cap I)
  BY Zenon, <1>7, JobsCounted, FS_Union
<1>10. Cardinality(Jobs(c) \cap I) = 0 /\ Cardinality(Jobs(c)) \in Nat
  BY Zenon, <1>8, FS_EmptySet, JobsCounted
<1>11. Cardinality(Jobs(c)') = Cardinality(Jobs(c)) + Cardinality(S)
  <2>1. Cardinality(Jobs(c)') = Cardinality(Jobs(c)) + Cardinality(S) - 0
    BY Zenon, <1>5, <1>7, <1>9, <1>10
  <2> QED
    BY <1>6, <1>10, <2>1
<1>12. \A d \in Consumer \ {c} : job'[d] = job[d]
  BY Zenon, <1>1, <1>3
<1> QED
  BY Zenon, <1>11, <1>12, SameJobs

\* A job that is over leaves one job less.
LEMMA ForgetCounts ==
    ASSUME TypeOK, NEW c \in Consumer, NEW i \in JobId, Forget(c, i), job[c][i].phase # "none"
    PROVE  /\ Cardinality(Jobs(c)') = Cardinality(Jobs(c)) - 1
           /\ \A d \in Consumer \ {c} : Jobs(d)' = Jobs(d)
<1>1. job \in [Consumer -> [JobId -> Job]] /\ job' = [job EXCEPT ![c][i] = NoJob]
  BY Zenon DEF TypeOK, Forget
<1>2. job'[c][i] = NoJob /\ (\A k \in JobId \ {i} : job'[c][k] = job[c][k]) /\ \A d \in Consumer \ {c} : job'[d] = job[d]
  BY Zenon, <1>1
<1>3. Jobs(c)' = Jobs(c) \ {i} /\ i \in Jobs(c)
  <2>1. NoJob.phase = "none"
    BY Zenon DEF NoJob
  <2> QED
    BY Zenon, <1>2, <2>1 DEF Jobs, At
<1>4. Cardinality(Jobs(c) \ {i}) = Cardinality(Jobs(c)) - 1
  BY Zenon, <1>3, JobsCounted, FS_RemoveElement
<1> QED
  BY Zenon, <1>2, <1>3, <1>4, SameJobs

\* n slots go back; the capacity is never exceeded, so none is dropped.
LEMMA ReleaseCounts ==
    ASSUME TypeOK, NEW c \in Consumer, NEW n \in Nat, Release(c, n), NEW u \in Nat,
           free[c] + n + u = Concurrency
    PROVE  free'[c] + u = Concurrency /\ \A d \in Consumer \ {c} : free'[d] = free[d]
<1>1. free \in [Consumer -> 0..Concurrency] /\ free[c] \in Nat /\ Concurrency \in Nat
  BY ConstantTypes DEF TypeOK
<1>2. Capped(free[c] + n, Concurrency) = free[c] + n
  BY <1>1 DEF Capped
<1>3. free' = [free EXCEPT ![c] = free[c] + n]
  BY Zenon, <1>2 DEF Release
<1>4. free'[c] = free[c] + n /\ \A d \in Consumer \ {c} : free'[d] = free[d]
  BY Zenon, <1>1, <1>3
<1> QED
  BY Zenon, <1>4

\* The poller: slots move from free to taken and on to the jobs or back.
LEMMA PollSlotted ==
    ASSUME TypeOK, TypeOK', AllSlotted, NEW c \in Consumer, PollLoop(c)
    PROVE  AllSlotted'
<1>0. /\ free[c] \in Nat /\ taken[c] \in Nat /\ Concurrency \in Nat /\ MaxReceive \in Nat
      /\ Cardinality(Jobs(c)) \in Nat
  BY ConstantTypes, JobsCounted DEF TypeOK
<1>1. Slotted(c) /\ \A d \in Consumer : Slotted(d)
  BY Zenon DEF AllSlotted
<1>00. PICK P, Q : poller \in [Consumer -> P] /\ taken \in [Consumer -> Q]
  BY Zenon DEF TypeOK
<1>2. SUFFICES /\ Slotted(c)'
               /\ \A d \in Consumer \ {c} :
                    /\ Jobs(d)' = Jobs(d) /\ free'[d] = free[d] /\ taken'[d] = taken[d]
                    /\ poller'[d] = poller[d] /\ paused'[d] = paused[d] /\ late'[d] = late[d]
  BY Zenon, <1>1, SlottedKept DEF AllSlotted
<1>3. CASE GateWait(c) \/ LoopEnds(c) \/ AcquireCut(c) \/ Close(c)
  <2>1. /\ poller[c] # "receive"
        /\ UNCHANGED <<job, free, taken, paused, late>>
    BY Zenon, <1>3 DEF GateWait, LoopEnds, AcquireCut, Close, pipelineVars
  <2>2. PICK p \in {"blocked", "slots", "closing", "gate", "returned"} :
            poller' = [poller EXCEPT ![c] = p] /\ (p = "slots" => ~paused[c])
    BY Zenon, <1>3 DEF GateWait, LoopEnds, AcquireCut, Close
  <2>3. poller'[c] = p /\ \A d \in Consumer \ {c} : poller'[d] = poller[d]
    BY Zenon, <2>2 DEF TypeOK
  <2>4. \A d \in Consumer : Jobs(d)' = Jobs(d)
    BY Zenon, <2>1, SameJobs
  <2> QED
    BY Zenon, <1>1, <2>1, <2>2, <2>3, <2>4 DEF Slotted
<1>4. CASE Acquire(c)
  <2>1. PICK n : n = Capped(free[c], MaxReceive)
    BY Zenon
  <2>2. n \in Nat /\ n <= free[c]
    BY <1>0, <2>1 DEF Capped
  <2>3. /\ poller[c] = "slots" /\ UNCHANGED <<job, paused>>
        /\ poller' = [poller EXCEPT ![c] = "receive"] /\ taken' = [taken EXCEPT ![c] = n]
        /\ free' = [free EXCEPT ![c] = free[c] - n]
    BY Zenon, <1>4, <2>1 DEF Acquire, pipelineVars
  <2>4. /\ poller'[c] = "receive" /\ taken'[c] = n /\ free'[c] = free[c] - n
        /\ \A d \in Consumer \ {c} : poller'[d] = poller[d] /\ taken'[d] = taken[d] /\ free'[d] = free[d]
    <3>1. poller'[c] = "receive" /\ \A d \in Consumer \ {c} : poller'[d] = poller[d]
      BY Zenon, <1>00, <2>3
    <3>2. taken'[c] = n /\ \A d \in Consumer \ {c} : taken'[d] = taken[d]
      BY Zenon, <1>00, <2>3
    <3>3. free'[c] = free[c] - n /\ \A d \in Consumer \ {c} : free'[d] = free[d]
      BY ZenonT(40), <2>3 DEF TypeOK
    <3> QED
      BY Zenon, <3>1, <3>2, <3>3
  <2>5. \A d \in Consumer : Jobs(d)' = Jobs(d)
    BY Zenon, <2>3, SameJobs
  <2>6. taken[c] = 0 /\ free[c] + taken[c] + Cardinality(Jobs(c)) = Concurrency /\ (paused[c] => late[c] = 0)
    BY Zenon, <1>1, <2>3 DEF Slotted
  <2>7. (free[c] - n) + n + Cardinality(Jobs(c)) = Concurrency
    BY <1>0, <2>2, <2>6
  <2>8. Capped(0 + 1, 2) = 1
    BY DEF Capped
  <2>9. /\ late' = [late EXCEPT ![c] = IF paused[c] THEN Capped(late[c] + 1, 2) ELSE 0]
        /\ late \in [Consumer -> 0..2]
    BY Zenon, <1>4 DEF Acquire, TypeOK
  <2>10. (paused[c] => late'[c] = 1) /\ \A d \in Consumer \ {c} : late'[d] = late[d]
    BY Zenon, <2>6, <2>8, <2>9
  <2>11. Slotted(c)'
    BY Zenon, <2>3, <2>4, <2>5, <2>7, <2>10 DEF Slotted
  <2> QED
    BY Zenon, <2>3, <2>4, <2>5, <2>10, <2>11
<1>5. ASSUME poller[c] = "receive", poller' = [poller EXCEPT ![c] = "gate"], taken' = [taken EXCEPT ![c] = 0],
             UNCHANGED <<paused, late>>, free'[c] + Cardinality(Jobs(c)') = Concurrency,
             \A d \in Consumer \ {c} : Jobs(d)' = Jobs(d) /\ free'[d] = free[d]
      PROVE  /\ Slotted(c)'
             /\ \A d \in Consumer \ {c} :
                  /\ Jobs(d)' = Jobs(d) /\ free'[d] = free[d] /\ taken'[d] = taken[d]
                  /\ poller'[d] = poller[d] /\ paused'[d] = paused[d] /\ late'[d] = late[d]
  <2>1. /\ poller'[c] = "gate" /\ taken'[c] = 0
        /\ \A d \in Consumer \ {c} : poller'[d] = poller[d] /\ taken'[d] = taken[d]
    <3>1. poller'[c] = "gate" /\ \A d \in Consumer \ {c} : poller'[d] = poller[d]
      BY Zenon, <1>00, <1>5
    <3>2. taken'[c] = 0 /\ \A d \in Consumer \ {c} : taken'[d] = taken[d]
      BY Zenon, <1>00, <1>5
    <3> QED
      BY Zenon, <3>1, <3>2
  <2>2. free'[c] \in Nat /\ Cardinality(Jobs(c)') \in Nat
    <3>1. IsFiniteSet(Jobs(c)')
      <4>1. Jobs(c)' \in SUBSET JobId /\ IsFiniteSet(JobId)
        BY Zenon, ConsumerAssumption DEF Jobs
      <4> QED
        BY Zenon, <4>1, FS_Subset
    <3> QED
      BY <3>1, FS_CardinalityType DEF TypeOK
  <2>3. free'[c] + 0 + Cardinality(Jobs(c)') = Concurrency
    BY <1>5, <2>2
  <2>4. Slotted(c)'
    BY Zenon, <1>1, <1>5, <2>1, <2>3 DEF Slotted
  <2> QED
    BY Zenon, <1>5, <2>1, <2>4
<1>6. CASE Receive(c)
  <2>1. PICK S \in Batches(c) : Poll(c, S)
    BY Zenon, <1>6 DEF Receive
  <2>2. S \in SUBSET Message /\ taken[c] - Cardinality(S) \in Nat
    BY Zenon, BatchSize
  <2>3. /\ Cardinality(Jobs(c)') = Cardinality(Jobs(c)) + Cardinality(S)
        /\ \A d \in Consumer \ {c} : Jobs(d)' = Jobs(d)
    BY Zenon, <2>1, <2>2, DispatchCounts DEF Poll
  <2>4. PICK n \in Nat : n = taken[c] - Cardinality(S)
    BY Zenon, <2>2
  <2>5. Cardinality(S) \in Nat
    BY Zenon, <2>2, FS_Subset, FS_CardinalityType, ConsumerAssumption
  <2>6. PICK u \in Nat : u = Cardinality(Jobs(c)) + Cardinality(S)
    BY <1>0, <2>5
  <2>7. free[c] + taken[c] + Cardinality(Jobs(c)) = Concurrency
    BY Zenon, <1>1 DEF Slotted
  <2>8. free[c] + n + u = Concurrency
    <3>1. SlotsMove(free[c], taken[c], Cardinality(Jobs(c)), Cardinality(S))
      BY Zenon, <1>0, <2>5, SlotsBalance
    <3> QED
      BY Zenon, <2>4, <2>6, <2>7, <3>1 DEF SlotsMove
  <2>9. Release(c, n)
    BY Zenon, <2>1, <2>4 DEF Poll
  <2>10. free'[c] + u = Concurrency /\ \A d \in Consumer \ {c} : free'[d] = free[d]
    BY Zenon, <2>8, <2>9, ReleaseCounts
  <2>11. free'[c] + Cardinality(Jobs(c)') = Concurrency
    BY Zenon, <2>3, <2>6, <2>10
  <2>12. /\ poller[c] = "receive" /\ poller' = [poller EXCEPT ![c] = "gate"]
         /\ taken' = [taken EXCEPT ![c] = 0] /\ UNCHANGED <<paused, late>>
    BY Zenon, <2>1 DEF Poll
  <2> QED
    BY Zenon, <1>5, <2>3, <2>10, <2>11, <2>12
<1>7. CASE ReceiveFails(c)
  <2>1. /\ poller[c] = "receive" /\ poller' = [poller EXCEPT ![c] = "gate"] /\ Release(c, taken[c])
        /\ taken' = [taken EXCEPT ![c] = 0] /\ UNCHANGED <<paused, late, job>>
    BY Zenon, <1>7 DEF ReceiveFails, pipelineVars
  <2>2. free[c] + taken[c] + Cardinality(Jobs(c)) = Concurrency
    BY Zenon, <1>1 DEF Slotted
  <2>3. free'[c] + Cardinality(Jobs(c)) = Concurrency /\ \A d \in Consumer \ {c} : free'[d] = free[d]
    BY Zenon, <1>0, <2>1, <2>2, ReleaseCounts
  <2>4. \A d \in Consumer : Jobs(d)' = Jobs(d)
    BY Zenon, <2>1, SameJobs
  <2>5. free'[c] + Cardinality(Jobs(c)') = Concurrency
    BY Zenon, <2>3, <2>4
  <2> QED
    BY Zenon, <1>5, <2>1, <2>3, <2>4, <2>5
<1> QED
  BY Zenon, <1>3, <1>4, <1>6, <1>7 DEF PollLoop

\* A job that ends gives its slot back; the others keep theirs.
LEMMA WorkerSlotted ==
    ASSUME TypeOK, JobsOK, AllSlotted, NEW c \in Consumer, NEW i \in JobId, Worker(c, i) \/ EventPanics(c, i)
    PROVE  AllSlotted'
<1>1. UNCHANGED <<poller, paused, taken, late>>
  BY Zenon DEF Worker, Work, Settled, LeftLeased, EventPanics, pollVars
<1>2. SUFFICES /\ \A d \in Consumer \ {c} : Jobs(d)' = Jobs(d) /\ free'[d] = free[d]
               /\ free'[c] + taken[c] + Cardinality(Jobs(c)') = Concurrency
  <2>1. Slotted(c)'
    BY Zenon, <1>1, <1>2 DEF AllSlotted, Slotted
  <2> QED
    BY Zenon, <1>1, <1>2, <2>1, SlottedKept DEF AllSlotted
<1>3. free[c] + taken[c] + Cardinality(Jobs(c)) = Concurrency
  BY Zenon DEF AllSlotted, Slotted
<1>4. CASE Work(c, i)
  <2>1. HandleEffect(c, i) /\ free' = free
    BY Zenon, <1>4, HandleStep DEF Work, brokerVars
  <2>2. PICK v \in Job : job' = [job EXCEPT ![c][i] = v] /\ v.phase # "none" /\ job[c][i].phase # "none"
    BY Zenon, <2>1 DEF HandleEffect, Handled
  <2>3. job'[c][i] = v /\ (\A k \in JobId \ {i} : job'[c][k] = job[c][k]) /\ \A d \in Consumer \ {c} : job'[d] = job[d]
    BY Zenon, <2>2 DEF TypeOK
  <2>4. Jobs(c)' = Jobs(c)
    <3>1. \A k \in JobId : job'[c][k].phase = "none" <=> job[c][k].phase = "none"
      BY Zenon, <2>2, <2>3
    <3> QED
      BY Zenon, <3>1 DEF Jobs, At
  <2> QED
    BY Zenon, <1>3, <2>1, <2>3, <2>4, SameJobs
<1>5. CASE Settled(c, i) \/ LeftLeased(c, i) \/ EventPanics(c, i)
  <2>1. Forget(c, i) /\ Release(c, 1)
    BY Zenon, <1>5 DEF Settled, LeftLeased, EventPanics
  <2>2. job[c][i].phase # "none"
    BY Zenon, <1>5 DEF Settled, LeftLeased, EventPanics, At
  <2>3. /\ Cardinality(Jobs(c)') = Cardinality(Jobs(c)) - 1
        /\ \A d \in Consumer \ {c} : Jobs(d)' = Jobs(d)
    BY Zenon, <2>1, <2>2, ForgetCounts
  <2>4. i \in Jobs(c) /\ free[c] \in Nat /\ taken[c] \in Nat /\ Cardinality(Jobs(c)) \in Nat /\ 1 \in Nat
    <3>1. i \in Jobs(c)
      BY Zenon, <2>2 DEF Jobs, At
    <3> QED
      BY <3>1, JobsCounted DEF TypeOK
  <2>5. Cardinality(Jobs(c)) # 0
    BY Zenon, <2>4, JobsCounted, FS_EmptySet
  <2>6. PICK u \in Nat : u = taken[c] + (Cardinality(Jobs(c)) - 1)
    BY Zenon, <2>4, <2>5, OneLess
  <2>7. free[c] + 1 + u = Concurrency
    <3>1. SlotReturns(free[c], taken[c], Cardinality(Jobs(c)))
      BY Zenon, <2>4, SlotsBalance
    <3> QED
      BY Zenon, <1>3, <2>6, <3>1 DEF SlotReturns
  <2>8. free'[c] + u = Concurrency /\ \A d \in Consumer \ {c} : free'[d] = free[d]
    BY Zenon, <2>1, <2>4, <2>7, ReleaseCounts
  <2>9. free'[c] \in Int
    BY <2>1, <2>4, ConstantTypes DEF Release, Capped, TypeOK
  <2>10. free'[c] + taken[c] + (Cardinality(Jobs(c)) - 1) = Concurrency
    BY Zenon, <2>4, <2>6, <2>8, <2>9, OneLessSum
  <2> QED
    BY Zenon, <2>3, <2>8, <2>10
<1> QED
  BY Zenon, <1>4, <1>5 DEF Worker

\* Pause, Resume, shutdown, a crash and a restart.
LEMMA ControlSlotted ==
    ASSUME TypeOK, AllSlotted, NEW c \in Consumer, Control(c)
    PROVE  AllSlotted'
<1>1. SUFFICES /\ Slotted(c)'
               /\ \A d \in Consumer \ {c} :
                    /\ Jobs(d)' = Jobs(d) /\ free'[d] = free[d] /\ taken'[d] = taken[d]
                    /\ poller'[d] = poller[d] /\ paused'[d] = paused[d] /\ late'[d] = late[d]
  BY Zenon, SlottedKept DEF AllSlotted
<1>2. Slotted(c)
  BY Zenon DEF AllSlotted
<1>3. CASE Pause(c) \/ Resume(c)
  <2>1. UNCHANGED <<job, free, taken>> /\ late' = [late EXCEPT ![c] = 0]
        /\ paused' \in {[paused EXCEPT ![c] = TRUE], [paused EXCEPT ![c] = FALSE]}
    BY Zenon, <1>3 DEF Pause, Resume, pipelineVars
  <2>2. PICK p \in {poller[c], "slots"} :
            /\ poller' = [poller EXCEPT ![c] = p]
            /\ p # poller[c] => poller[c] = "blocked"
    <3>1. CASE Pause(c)
      BY Zenon, <3>1 DEF Pause, TypeOK
    <3>2. CASE Resume(c)
      BY Zenon, <3>2 DEF Resume
    <3> QED
      BY Zenon, <1>3, <3>1, <3>2
  <2>3. /\ late'[c] = 0 /\ poller'[c] = p
        /\ \A d \in Consumer \ {c} : late'[d] = late[d] /\ poller'[d] = poller[d] /\ paused'[d] = paused[d]
    BY Zenon, <2>1, <2>2 DEF TypeOK
  <2>4. \A d \in Consumer : Jobs(d)' = Jobs(d)
    BY Zenon, <2>1, SameJobs
  <2>5. Slotted(c)'
    BY Zenon, <1>2, <2>1, <2>2, <2>3, <2>4 DEF Slotted
  <2> QED
    BY Zenon, <2>1, <2>3, <2>4, <2>5
<1>4. CASE Shutdown(c)
  <2>1. UNCHANGED <<job, poller, paused, taken, late, free>>
    BY Zenon, <1>4 DEF Shutdown, pollVars
  <2>2. \A d \in Consumer : Jobs(d)' = Jobs(d)
    BY Zenon, <2>1, SameJobs
  <2> QED
    BY Zenon, <1>2, <2>1, <2>2, SlottedKept
<1>5. CASE Crash(c)
  <2>1. /\ job' = [job EXCEPT ![c] = [i \in JobId |-> NoJob]] /\ poller' = [poller EXCEPT ![c] = "crashed"]
        /\ paused' = [paused EXCEPT ![c] = FALSE] /\ late' = [late EXCEPT ![c] = 0]
        /\ taken' = [taken EXCEPT ![c] = 0] /\ free' = [free EXCEPT ![c] = Concurrency]
    BY Zenon, <1>5 DEF Crash
  <2>2. /\ job'[c] = [i \in JobId |-> NoJob] /\ poller'[c] = "crashed" /\ paused'[c] = FALSE
        /\ taken'[c] = 0 /\ free'[c] = Concurrency
        /\ \A d \in Consumer \ {c} :
              /\ job'[d] = job[d] /\ free'[d] = free[d] /\ taken'[d] = taken[d]
              /\ poller'[d] = poller[d] /\ paused'[d] = paused[d] /\ late'[d] = late[d]
    BY Zenon, <2>1 DEF TypeOK
  <2>3. Jobs(c)' = {}
    <3>1. NoJob.phase = "none"
      BY DEF NoJob
    <3>2. \A i \in JobId : job'[c][i].phase = "none"
      BY Zenon, <2>2, <3>1
    <3> QED
      BY Zenon, <3>2 DEF Jobs, At
  <2>4. Concurrency + 0 + 0 = Concurrency
    BY ConstantTypes
  <2>5. Slotted(c)'
    BY Zenon, <2>2, <2>3, <2>4, FS_EmptySet DEF Slotted
  <2> QED
    BY Zenon, <2>2, <2>5, SameJobs
<1>6. CASE Restart(c)
  <2>1. /\ poller[c] = "crashed" /\ poller' = [poller EXCEPT ![c] = "gate"]
        /\ UNCHANGED <<job, paused, taken, late, free>>
    BY Zenon, <1>6 DEF Restart, pipelineVars
  <2>2. poller'[c] = "gate" /\ \A d \in Consumer \ {c} : poller'[d] = poller[d]
    BY Zenon, <2>1 DEF TypeOK
  <2>3. \A d \in Consumer : Jobs(d)' = Jobs(d)
    BY Zenon, <2>1, SameJobs
  <2>4. Slotted(c)'
    BY Zenon, <1>2, <2>1, <2>2, <2>3 DEF Slotted
  <2> QED
    BY Zenon, <2>1, <2>2, <2>3, <2>4
<1> QED
  BY Zenon, <1>3, <1>4, <1>5, <1>6 DEF Control

\* For any number of consumers, slots, batches and faults, no slot is lost or
\* made up, so a consumer never holds more messages than it has workers, and a
\* paused one begins at most the receive it had passed the gate for.
THEOREM SlotsAddUp == Spec => []Backpressure
<1>1. Init => AllSlotted
  <2> SUFFICES ASSUME Init, NEW c \in Consumer PROVE Slotted(c)
    BY Zenon DEF AllSlotted
  <2>1. Jobs(c) = {}
    BY Zenon DEF Init, PipelineInit, Jobs, At, NoJob
  <2>2. Concurrency + 0 + 0 = Concurrency
    BY ConstantTypes
  <2>3. free[c] = Concurrency /\ taken[c] = 0 /\ paused[c] = FALSE
    BY Zenon DEF Init
  <2> QED
    BY Zenon, <2>1, <2>2, <2>3, FS_EmptySet DEF Slotted
<1>2. IInv /\ IInv' /\ AllSlotted /\ [Next]_vars => AllSlotted'
  <2> SUFFICES ASSUME TypeOK, JobsOK, TypeOK', AllSlotted, [Next]_vars PROVE AllSlotted'
    BY Zenon DEF IInv
  <2>1. CASE UNCHANGED <<job, free, taken, poller, paused, late>>
    <3>1. \A d \in Consumer : Jobs(d)' = Jobs(d)
      BY Zenon, <2>1, SameJobs
    <3> QED
      BY Zenon, <2>1, <3>1, SlottedKept DEF AllSlotted
  <2>2. ASSUME NEW m \in Message, Expire(m) \/ Lapse(m) PROVE AllSlotted'
    BY Zenon, <2>1, <2>2 DEF Expire, Lapse, pipelineVars, pollVars
  <2>3. CASE UNCHANGED vars
    BY Zenon, <2>1, <2>3 DEF vars, pipelineVars, pollVars
  <2> QED
    BY Zenon, <2>2, <2>3, PollSlotted, WorkerSlotted, ControlSlotted DEF Next
<1>3. AllSlotted => Backpressure
  <2>1. 0 <= 1 /\ 1 <= 1
    OBVIOUS
  <2> QED
    BY Zenon, <2>1 DEF AllSlotted, Slotted, Backpressure, SlotsConserved, PauseStopsPolling
<1> QED
  BY InductiveIInv, <1>1, <1>2, <1>3, PTL DEF Spec
=============================================================================
