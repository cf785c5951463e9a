------------------------------ MODULE Pipeline ------------------------------
(***************************************************************************)
(* core.pipeline of msq (core/pipeline.go): what happens to one delivery   *)
(* of a message between the provider's worker that picks it up and the     *)
(* result the worker settles with the broker.  A job is one delivery in    *)
(* the hands of a consumer; its phase is the step Handle is at.  The       *)
(* actions change only the variables of this module: the provider modules  *)
(* complete them.                                                          *)
(***************************************************************************)
EXTENDS Integers

CONSTANTS
    Consumer,    \* consumers of the topic, each in its own process
    Message,
    NoMsg,       \* not a message
    JobId,       \* names for the jobs of one consumer
    MaxRetries,  \* ConsumeConfig.MaxRetries
    Limit,       \* ConsumeConfig.DeliveryLimit(), 0 when unlimited
    DeadLetter,  \* whether ConsumeConfig.DeadLetterTopic may be set: TRUE, FALSE
    MaxCount     \* the delivery count saturates here

ASSUME PipelineAssumption ==
    /\ NoMsg \notin Message
    /\ MaxRetries \in Nat /\ Limit \in Nat /\ MaxCount \in Nat \ {0}
    /\ Limit <= MaxCount
    /\ DeadLetter \subseteq BOOLEAN

VARIABLES
    dlq,         \* whether the consumers have a dead-letter producer
    job,         \* job[c][i]: delivery i of consumer c
    ended,       \* whether the context of c's Consume has ended
    accepted,    \* history: a handler accepted the message (Ack, Ignore, Reject)
    dead         \* a copy of the message is in the dead-letter topic

pipelineVars == <<dlq, job, ended, accepted, dead>>

NoJob == [phase |-> "none", msg |-> NoMsg, attempt |-> 0, count |-> 0]

Phase == {"none", "queued", "run", "backoff", "nacked", "dlq", "nack", "remove"}

Job == [phase : Phase, msg : Message \cup {NoMsg}, attempt : 0..(MaxRetries + 1), count : 0..MaxCount]

\* A delivery handed to the worker pool.
NewJob(m, n) == [phase |-> "queued", msg |-> m, attempt |-> 0, count |-> n]

PipelineInit ==
    /\ dlq \in DeadLetter
    /\ job = [c \in Consumer |-> [i \in JobId |-> NoJob]]
    /\ ended = [c \in Consumer |-> FALSE]
    /\ accepted = [m \in Message |-> FALSE]
    /\ dead = [m \in Message |-> FALSE]

At(c, i, phase) == job[c][i].phase = phase

\* Job j at another phase and attempt.
Moved(j, phase, attempt) ==
    [phase |-> phase, msg |-> j.msg, attempt |-> attempt, count |-> j.count]

Goto(c, i, phase) ==
    job' = [job EXCEPT ![c][i] = Moved(job[c][i], phase, job[c][i].attempt)]

\* The job is over, whatever became of it.
Forget(c, i) == job' = [job EXCEPT ![c][i] = NoJob]

\* DeliveryLimitReached: the delivery counted n was the last one allowed.
DeliveryLimitReached(n) == Limit > 0 /\ n >= Limit

\* Handle: EventMessageReceived, then the first attempt of retry.
Begin(c, i) ==
    /\ At(c, i, "queued")
    /\ job' = [job EXCEPT ![c][i] = Moved(job[c][i], "run", 1)]
    /\ UNCHANGED <<dlq, ended, accepted, dead>>

\* The handler returns Ack, Ignore or Reject: the message is to be removed.
HandlerAccepts(c, i) ==
    /\ At(c, i, "run")
    /\ Goto(c, i, "remove")
    /\ accepted' = [accepted EXCEPT ![job[c][i].msg] = TRUE]
    /\ UNCHANGED <<dlq, ended, dead>>

\* The handler returns Nack, or panics and run turns that into a Nack.
HandlerNacks(c, i) ==
    /\ At(c, i, "run")
    /\ \/ job[c][i].attempt > MaxRetries /\ Goto(c, i, "nacked")
       \/ job[c][i].attempt <= MaxRetries /\ Goto(c, i, "backoff")
    /\ UNCHANGED <<dlq, ended, accepted, dead>>

\* The backoff is over: the next attempt.
Retry(c, i) ==
    /\ At(c, i, "backoff")
    /\ job' = [job EXCEPT ![c][i] = Moved(job[c][i], "run", job[c][i].attempt + 1)]
    /\ UNCHANGED <<dlq, ended, accepted, dead>>

\* The context ended during the backoff: retry returns the last Nack.
RetryCut(c, i) ==
    /\ At(c, i, "backoff")
    /\ ended[c]
    /\ Goto(c, i, "nacked")
    /\ UNCHANGED <<dlq, ended, accepted, dead>>

\* settleNack, unless the context has ended: dead-letter the message, reject
\* it once its deliveries are used up, or leave it to be redelivered.
SettleNack(c, i) ==
    /\ At(c, i, "nacked")
    /\ \/ ~ended[c] /\ dlq /\ Goto(c, i, "dlq")
       \/ ~ended[c] /\ ~dlq /\ DeliveryLimitReached(job[c][i].count) /\ Goto(c, i, "remove")
       \/ /\ ended[c] \/ (~dlq /\ ~DeliveryLimitReached(job[c][i].count))
          /\ Goto(c, i, "nack")
    /\ UNCHANGED <<dlq, ended, accepted, dead>>

\* deadLetter publishes the copy: the original is acked.
DeadLettered(c, i) ==
    /\ At(c, i, "dlq")
    /\ dead' = [dead EXCEPT ![job[c][i].msg] = TRUE]
    /\ Goto(c, i, "remove")
    /\ UNCHANGED <<dlq, ended, accepted>>

\* A failed publish taken for a dead-lettered message.
FailureAcked(c, i) ==
    /\ At(c, i, "dlq")
    /\ dead' \in {dead, [dead EXCEPT ![job[c][i].msg] = TRUE]}
    /\ Goto(c, i, "remove")
    /\ UNCHANGED <<dlq, ended, accepted>>

\* deadLetter fails, whether or not the broker stored the copy: Nack.
DeadLetterFails(c, i) ==
    /\ At(c, i, "dlq")
    /\ dead' \in {dead, [dead EXCEPT ![job[c][i].msg] = TRUE]}
    /\ Goto(c, i, "nack")
    /\ UNCHANGED <<dlq, ended, accepted>>

Handle(c, i) ==
    \/ Begin(c, i) \/ HandlerAccepts(c, i) \/ HandlerNacks(c, i)
    \/ Retry(c, i) \/ RetryCut(c, i) \/ SettleNack(c, i)
    \/ DeadLettered(c, i) \/ DeadLetterFails(c, i)
=============================================================================
