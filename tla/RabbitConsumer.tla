--------------------------- MODULE RabbitConsumer ---------------------------
(***************************************************************************)
(* The consumer of msq/provider/rabbitmq/broker.go over a connection that  *)
(* may be lost: Consume registers on a channel, hands the deliveries to a  *)
(* worker pool and re-opens a lost channel; Pause cancels the registration *)
(* and Resume lets Consume register again; the end of the context closes   *)
(* the channel.                                                            *)
(*                                                                         *)
(* The broker (external) gives the messages of a lost channel back to the  *)
(* queue and counts the deliveries; an ack on a lost channel has no        *)
(* effect.  Bodies and the handler are abstracted to the handler's result. *)
(***************************************************************************)
EXTENDS RabbitConn

CONSTANTS
    AmqpMessage,        \* messages of the queue, each with its own MessageId
    Prefetch,           \* ConsumeConfig.Concurrency
    MaxTracked,         \* maxTrackedDeliveries
    MaxSeen,            \* bound on the deliveries of a message
    MaxPauses           \* bound on the calls of Pause

ASSUME RabbitConsumerAssumption ==
    Prefetch \in Nat \ {0} /\ MaxTracked \in Nat \ {0} /\ MaxSeen \in Nat /\ MaxPauses \in Nat

VARIABLES
    quorum,     \* the queue carries x-delivery-count
    queue,      \* the broker's messages
    amqp,       \* the amqpConsumer and where Consume is
    jobs,       \* deliveries in the worker pool
    nacks       \* deliveryTracker.nacks

consumerVars == <<quorum, queue, amqp, jobs, nacks>>

RabbitConsumerInit ==
    /\ quorum = FALSE
    /\ queue = [m \in AmqpMessage |-> [at |-> 0, gone |-> FALSE, seen |-> 0]]
    /\ amqp = [pc |-> "new", channel |-> NoChannel, opened |-> 0, tagged |-> FALSE, canceled |-> FALSE,
               gate |-> FALSE, pausing |-> FALSE, pauses |-> 0,
               done |-> FALSE, after |-> FALSE, missed |-> FALSE]
    /\ jobs = {}
    /\ nacks = [m \in AmqpMessage |-> 0]

\* Channels are numbered; only the newest can be open.
OpenHere(n) == n = amqp.opened /\ IsOpen(amqp.channel)

\* A message is on the queue unless an open channel holds it.
OnQueue(m) == ~queue[m].gone /\ ~OpenHere(queue[m].at)

Unacked == {m \in AmqpMessage : ~queue[m].gone /\ queue[m].at = amqp.opened}
-----------------------------------------------------------------------------
(* NewConsumer, Consume and reopen.                                        *)

\* NewConsumer: open gives the first channel, or the caller gets its error.
NewAmqpConsumer ==
    /\ amqp.pc = "new" /\ CanOpen
    /\ amqp' = [amqp EXCEPT !.pc = "register", !.channel = NewChannel, !.opened = @ + 1]
    /\ quorum' \in BOOLEAN
    /\ UNCHANGED <<conn, queue, jobs, nacks>>

\* ch.Consume; an error on a channel that is still open is returned.
ConsumeOnChannel ==
    /\ amqp.pc = "register"
    /\ \/ IsOpen(amqp.channel)
          /\ amqp' = [amqp EXCEPT !.pc = "range", !.tagged = TRUE]
       \/ IsOpen(amqp.channel)
          /\ amqp' = [amqp EXCEPT !.pc = "drain"]
       \/ ~IsOpen(amqp.channel)
          /\ amqp' = [amqp EXCEPT !.pc = IF amqp.done THEN "drain" ELSE "sleep"]
    /\ UNCHANGED <<conn, quorum, queue, jobs, nacks>>

\* The deliveries end: the registration was cancelled or the channel is lost.
DeliveriesEnd ==
    /\ amqp.pc = "range"
    /\ ~amqp.tagged \/ ~IsOpen(amqp.channel)
    /\ amqp' = [amqp EXCEPT !.tagged = FALSE,
                            !.pc = IF amqp.done THEN "drain"
                                   ELSE IF amqp.canceled THEN "wait" ELSE "sleep",
                            !.canceled = amqp.done /\ @]
    /\ UNCHANGED <<conn, quorum, queue, jobs, nacks>>

GateWait ==
    /\ amqp.pc = "wait"
    /\ \/ ~amqp.gate /\ amqp' = [amqp EXCEPT !.pc = "register"]
       \/ amqp.done /\ amqp' = [amqp EXCEPT !.pc = "drain"]
    /\ UNCHANGED <<conn, quorum, queue, jobs, nacks>>

\* Variant: the wait does not look at the context.
ReopenSleepBlind ==
    /\ amqp.pc = "sleep"
    /\ amqp' = [amqp EXCEPT !.pc = "open"]
    /\ UNCHANGED <<conn, quorum, queue, jobs, nacks>>

\* reopen: worker.Sleep.
ReopenSleep ==
    /\ amqp.pc = "sleep"
    /\ amqp' = [amqp EXCEPT !.pc = IF amqp.done THEN "drain" ELSE "open"]
    /\ UNCHANGED <<conn, quorum, queue, jobs, nacks>>

\* open: the channel, its prefetch, the queue (declared, or passively when it
\* exists with other arguments) and the binding; any of them may fail.
ReopenOpen ==
    /\ amqp.pc = "open"
    /\ \/ amqp' = [amqp EXCEPT !.pc = "sleep"]
       \/ CanOpen /\ amqp' = [amqp EXCEPT !.pc = "register", !.channel = NewChannel,
                                          !.opened = @ + 1, !.missed = amqp.after]
    /\ UNCHANGED <<conn, quorum, queue, jobs, nacks>>

\* pool.Close: Consume returns when the handlers have.
ConsumeReturns ==
    /\ amqp.pc = "drain" /\ jobs = {}
    /\ amqp' = [amqp EXCEPT !.pc = "returned"]
    /\ UNCHANGED <<conn, quorum, queue, jobs, nacks>>

CtxEnds ==
    /\ amqp.pc # "new" /\ ~amqp.done
    /\ amqp' = [amqp EXCEPT !.done = TRUE]
    /\ UNCHANGED <<conn, quorum, queue, jobs, nacks>>

\* context.AfterFunc: closes the channel that is current when it runs.
AfterFunc ==
    /\ amqp.done /\ ~amqp.after /\ amqp.pc # "returned"
    /\ amqp' = [amqp EXCEPT !.after = TRUE, !.channel.ok = FALSE]
    /\ UNCHANGED <<conn, quorum, queue, jobs, nacks>>

\* External: the broker closes the channel alone.
ChannelLost ==
    /\ amqp.pc # "new" /\ IsOpen(amqp.channel) /\ conn.drops < MaxDrops
    /\ conn' = [conn EXCEPT !.drops = @ + 1]
    /\ amqp' = [amqp EXCEPT !.channel.ok = FALSE]
    /\ UNCHANGED <<quorum, queue, jobs, nacks>>
-----------------------------------------------------------------------------
(* Pause and Resume.                                                       *)

Pause ==
    /\ amqp.pc \notin {"new", "returned"} /\ ~amqp.done /\ ~amqp.pausing /\ amqp.pauses < MaxPauses
    /\ amqp' = [amqp EXCEPT !.gate = TRUE, !.canceled = TRUE, !.pausing = TRUE,
                            !.pauses = @ + 1]
    /\ UNCHANGED <<conn, quorum, queue, jobs, nacks>>

\* ch.Cancel on the channel that is current now.
PauseCancel ==
    /\ amqp.pausing
    /\ amqp' = [amqp EXCEPT !.pausing = FALSE, !.tagged = @ /\ ~IsOpen(amqp.channel)]
    /\ UNCHANGED <<conn, quorum, queue, jobs, nacks>>

Resume ==
    /\ amqp.gate /\ ~amqp.pausing
    /\ amqp' = [amqp EXCEPT !.gate = FALSE]
    /\ UNCHANGED <<conn, quorum, queue, jobs, nacks>>
-----------------------------------------------------------------------------
(* Deliveries.                                                             *)

Max2(a, b) == IF a > b THEN a ELSE b

\* Variant: the count is stored again after it was incremented.
DeliveryCountTwice(m, nth) ==
    IF quorum THEN nth
    ELSE IF nth = 1 THEN 1 ELSE Max2(nacks[m], 1) + 2

\* deliveryTracker.count: the broker's counter, else the local one.
DeliveryCount(m, nth) ==
    IF quorum THEN nth
    ELSE IF nth = 1 THEN 1 ELSE Max2(nacks[m], 1) + 1

\* External: the broker delivers up to the prefetch, which is the number of
\* workers; a worker takes it and handle counts it.
Deliver(m) ==
    /\ amqp.pc = "range" /\ amqp.tagged /\ IsOpen(amqp.channel)
    /\ OnQueue(m) /\ queue[m].seen < MaxSeen
    /\ Cardinality(Unacked) < Prefetch
    /\ queue' = [queue EXCEPT ![m].at = amqp.opened, ![m].seen = @ + 1]
    /\ jobs' = jobs \cup {[m |-> m, at |-> amqp.opened, pc |-> "run",
                           count |-> DeliveryCount(m, queue[m].seen + 1)]}
    /\ UNCHANGED <<conn, quorum, amqp, nacks>>

Tracked == {m \in AmqpMessage : nacks[m] # 0}

\* Nack: deliveryTracker.nacked, the delay, then the requeue.
HandleNack(j) ==
    /\ j.pc = "run"
    /\ nacks' = IF Cardinality(Tracked) >= MaxTracked
                THEN [m \in AmqpMessage |-> IF m = j.m THEN j.count ELSE 0]
                ELSE [nacks EXCEPT ![j.m] = j.count]
    /\ jobs' = (jobs \ {j}) \cup {[j EXCEPT !.pc = "delay"]}
    /\ UNCHANGED <<conn, quorum, queue, amqp>>

Requeue(j) ==
    /\ j.pc = "delay"
    /\ queue' = IF OpenHere(j.at) /\ queue[j.m].at = j.at
                THEN [queue EXCEPT ![j.m].at = 0] ELSE queue
    /\ jobs' = jobs \ {j}
    /\ UNCHANGED <<conn, quorum, amqp, nacks>>

\* Ack, Ignore and Reject: settled, then the ack (or the nack that drops it).
HandleSettle(j) ==
    /\ j.pc = "run"
    /\ nacks' = [nacks EXCEPT ![j.m] = 0]
    /\ queue' = IF OpenHere(j.at) /\ queue[j.m].at = j.at
                THEN [queue EXCEPT ![j.m].gone = TRUE, ![j.m].at = 0] ELSE queue
    /\ jobs' = jobs \ {j}
    /\ UNCHANGED <<conn, quorum, amqp>>

\* A panic outside the handler's recovery: Pool.safeRun keeps the worker, the
\* delivery stays unacked until its channel closes.
HandlePanic(j) ==
    /\ j.pc = "run"
    /\ jobs' = jobs \ {j}
    /\ UNCHANGED <<conn, quorum, queue, amqp, nacks>>

JobStep == \E j \in jobs : HandleNack(j) \/ Requeue(j) \/ HandleSettle(j) \/ HandlePanic(j)

ConsumeStep ==
    ConsumeOnChannel \/ DeliveriesEnd \/ GateWait \/ ReopenSleep \/ ReopenOpen \/ ConsumeReturns

RabbitConsumerNext ==
    \/ NewAmqpConsumer \/ ConsumeStep \/ JobStep \/ CtxEnds \/ AfterFunc \/ ChannelLost
    \/ Pause \/ PauseCancel \/ Resume
    \/ \E m \in AmqpMessage : Deliver(m)
    \/ (RabbitConnStep \/ Drop) /\ UNCHANGED consumerVars
    \* gofi closes the broker once it has cancelled the consumers.
    \/ amqp.done /\ ConnClose /\ UNCHANGED consumerVars

rabbitConsumerVars == <<conn, consumerVars>>

RabbitConsumerFairness ==
    /\ WF_rabbitConsumerVars(ConsumeStep) /\ WF_rabbitConsumerVars(JobStep)
    /\ WF_rabbitConsumerVars(AfterFunc)
    /\ WF_rabbitConsumerVars(RabbitConnStep /\ UNCHANGED consumerVars)

RabbitConsumerSpec ==
    RabbitConnInit /\ RabbitConsumerInit /\ [][RabbitConsumerNext]_rabbitConsumerVars
    /\ RabbitConsumerFairness
-----------------------------------------------------------------------------
\* The count a handler sees never exceeds the deliveries the broker made, so
\* that no message reaches its delivery limit early (broker.go: forgotten
\* counts "only delay the delivery limit"), whatever jobs of lost channels
\* still write to the tracker.
CountNotAbove == \A j \in jobs : j.count <= queue[j.m].seen

\* Consume ends once its context has (broker.go: "Consume delivers messages
\* until ctx ends"), unless the context's callback ran while reopen was opening
\* a channel: that channel is installed after the callback closed the old one.
ConsumeEnds == amqp.done ~> (amqp.pc = "returned" \/ amqp.missed)
=============================================================================
