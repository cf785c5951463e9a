---------------------------- MODULE MCMessaging ----------------------------
(***************************************************************************)
(* One instance of each model of the message brokers, for TLC.  A          *)
(* behaviour is of one part: the others keep their initial state.          *)
(***************************************************************************)
EXTENDS RabbitConsumer, RabbitProducer, KafkaConsumer, Sending, BrokerService

VARIABLE part

CONSTANTS s1, s2        \* the goroutines that send to RabbitMQ

Consuming == part = "rabbit consumer" /\ UNCHANGED <<part, producerVars, kafkaVars, sendVars, svcVars>>
Producing == part = "rabbit producer" /\ UNCHANGED <<part, consumerVars, kafkaVars, sendVars, svcVars>>
Grouping  == part = "kafka" /\ UNCHANGED <<part, conn, consumerVars, producerVars, sendVars, svcVars>>
Sends     == part = "sending" /\ UNCHANGED <<part, conn, consumerVars, producerVars, kafkaVars, svcVars>>
Serving   == part = "service" /\ UNCHANGED <<part, conn, consumerVars, producerVars, kafkaVars, sendVars>>

Init ==
    /\ part \in {"rabbit consumer", "rabbit producer", "kafka", "sending", "service"}
    /\ RabbitConnInit /\ RabbitConsumerInit /\ RabbitProducerInit
    /\ KafkaInit /\ SendingInit /\ BrokerServiceInit

Next ==
    \/ Consuming /\ RabbitConsumerNext
    \/ Producing /\ RabbitProducerNext
    \/ Grouping /\ KafkaNext
    \/ Sends /\ SendingNext
    \/ Serving /\ BrokerServiceNext

vars == <<part, conn, consumerVars, producerVars, kafkaVars, sendVars, svcVars>>

Spec ==
    /\ Init /\ [][Next]_vars
    /\ WF_vars(Consuming /\ ConsumeStep) /\ WF_vars(Consuming /\ JobStep)
    /\ WF_vars(Consuming /\ AfterFunc)
    /\ WF_vars(Consuming /\ RabbitConnStep /\ UNCHANGED consumerVars)
-----------------------------------------------------------------------------
\* A batch with an unroutable message beside the same message elsewhere; one
\* message twice.
MCBatches ==
    LET M(i, t) == [id |-> i, topic |-> t]
    IN  {[c \in {s1, s2} |-> IF c = s1 THEN <<M(1, "bound"), M(2, "unbound")>> ELSE <<M(3, "bound")>>],
         [c \in {s1, s2} |-> IF c = s1 THEN <<M(1, "unbound"), M(1, "unbound")>> ELSE <<>>]}

\* Batches over two topics, of every kind of headers, and with one message twice.
MCSendBatches ==
    LET M(id, t, k) == [id |-> id, topic |-> t, type |-> Nil, source |-> Nil, key |-> k, value |-> id,
                        time |-> "then", headers |-> (<<"user", "trace">> :> "x")]
    IN  {<<M("a", "t", Nil), M("b", "u", "k"), M("c", "t", Nil)>>,
         <<[M("a", "t", Nil) EXCEPT !.headers = <<>>, !.type = "order"], M("b", Nil, "k"), M("c", "t", Nil)>>,
         <<M("a", "t", Nil), M("b", "t", "k"), M("a", "t", Nil)>>,
         <<M("a", "t", Nil)>>}

\* For every producer, a send that reports success was taken by the broker and is
\* in it, unless that is Redis Pub/Sub or Kafka without Acks "all", and a handler
\* gets what is in it as it was sent (SendMessage and SendMessagesBatch of the
\* providers; RabbitMQ's with publisher confirms).
SendsKept == SentMeansStored /\ NilMeansStored
=============================================================================
