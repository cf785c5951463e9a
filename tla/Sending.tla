------------------------------- MODULE Sending -------------------------------
(***************************************************************************)
(* SendMessage and SendMessagesBatch: the instrumented producer of         *)
(* msq/core/producer.go over the producers of Kafka, SQS, OCI Queue, Redis *)
(* (Pub/Sub and Streams) and NATS, and an application that sends again     *)
(* what a batch reports as not sent.  RabbitMQ's is RabbitProducer.        *)
(*                                                                         *)
(* External: a request to a broker stores any part of what it carries when *)
(* it fails, what its answer says when the answer is per message, and all  *)
(* of it when it succeeds.  Two ways of sending promise less: Redis        *)
(* Pub/Sub hands what it is sent to the subscribers there are, and Kafka   *)
(* with Acks "leader" or "none" may lose records it has acknowledged.  A   *)
(* FIFO queue and a JetStream stream drop a message whose id they have     *)
(* already stored.                                                         *)
(***************************************************************************)
EXTENDS Naturals, TLC, Sequences, FiniteSets, SequencesExt

CONSTANTS
    SendBatches,    \* the batches the application sends
    MaxBatchSize,   \* entries of one SQS request
    MaxSends        \* bound on the application's sends of a batch

ASSUME SendingAssumption == MaxBatchSize \in Nat \ {0} /\ MaxSends \in Nat

-----------------------------------------------------------------------------
(* How messages travel: CloudEvents binary mode (msq/types/codec.go) on     *)
(* Kafka, NATS and, when chosen, RabbitMQ, the JSON envelope on the others; *)
(* and what each consumer rebuilds.  A message is a record [id, topic,      *)
(* type, source, key, value, time, headers]; Nil is the nil UUID, a missing *)
(* text or a zero time.  Headers are a function from names <<"ce", name>>   *)
(* (the binding's prefix) or <<"user", name>> to values.                    *)

Nil == "nil"

DefaultEventType == "gofi.message"

NameOfContentType == <<"user", "content-type">>

KafkaBinding == [contentType |-> TRUE, keyInHeaders |-> FALSE]
AMQPBinding == [contentType |-> FALSE, keyInHeaders |-> TRUE]
NATSBinding == [contentType |-> TRUE, keyInHeaders |-> TRUE]

Or(a, b) == IF a # Nil THEN a ELSE b

\* A header that is there only under a condition.
When(cond, name, v) == IF cond THEN name :> v ELSE <<>>

\* Binding.Encode: the attributes win over the user's headers.
Encode(b, m) ==
    [body |-> m.value,
     headers |-> (<<"ce", "specversion">> :> "1.0")
                 @@ (<<"ce", "id">> :> m.id)
                 @@ (<<"ce", "type">> :> Or(m.type, DefaultEventType))
                 @@ (<<"ce", "source">> :> Or(m.source, <<"topics", m.topic>>))
                 @@ When(m.time # Nil, <<"ce", "time">>, m.time)
                 @@ When(b.contentType, NameOfContentType, "application/json")
                 @@ When(b.keyInHeaders /\ m.key # Nil, <<"ce", "partitionkey">>, m.key)
                 @@ m.headers]

IsBinary(headers) == <<"ce", "specversion">> \in DOMAIN headers

Attribute == {<<"ce", n>> : n \in {"id", "type", "source", "time", "partitionkey",
                                   "specversion", "datacontenttype"}}

Get(headers, name) == IF name \in DOMAIN headers THEN headers[name] ELSE Nil

\* Binding.Decode: unknown attributes stay headers.
Decode(b, body, headers) ==
    LET rest == (DOMAIN headers \ Attribute) \ (IF b.contentType THEN {NameOfContentType} ELSE {})
        type == Get(headers, <<"ce", "type">>)
    IN  [id |-> Get(headers, <<"ce", "id">>),
         topic |-> Nil,
         type |-> IF type = DefaultEventType THEN Nil ELSE type,
         source |-> Get(headers, <<"ce", "source">>),
         key |-> Get(headers, <<"ce", "partitionkey">>),
         value |-> body,
         time |-> Get(headers, <<"ce", "time">>),
         headers |-> [n \in rest |-> headers[n]]]

\* DecodeEnvelope: a body that is not an envelope is the value itself.
DecodeEnvelope(body) ==
    IF "id" \in DOMAIN body THEN body
    ELSE [id |-> Nil, topic |-> Nil, type |-> Nil, source |-> Nil, key |-> Nil,
          value |-> body.raw, time |-> "received", headers |-> <<>>]

\* The wire record of a provider: where it goes, what it carries and the
\* transport's own key, time and position.
KafkaEncode(m) ==
    Encode(KafkaBinding, m) @@ [topic |-> m.topic, key |-> m.key, time |-> Or(m.time, "sent")]

KafkaDecode(w) ==
    LET m == IF IsBinary(w.headers) THEN Decode(KafkaBinding, w.body, w.headers)
             ELSE [id |-> Nil, topic |-> Nil, type |-> Nil, source |-> Nil, key |-> Nil,
                   value |-> w.body, time |-> Nil, headers |-> w.headers]
    IN  [m EXCEPT !.id = Or(@, "position"), !.topic = w.topic, !.key = w.key, !.time = Or(@, w.time)]

RabbitEncode(cloudEvents, m) ==
    IF cloudEvents THEN Encode(AMQPBinding, m) @@ [topic |-> m.topic, messageId |-> m.id]
    ELSE [body |-> m, headers |-> <<>>, topic |-> m.topic, messageId |-> m.id]

\* A CloudEvent takes the routing key as its topic, an envelope keeps its own;
\* redelivery by a quorum queue adds a header.
RabbitDecode(w, redelivered) ==
    LET hs == w.headers @@ When(redelivered, <<"user", "x-delivery-count">>, "1")
        m == IF IsBinary(hs)
             THEN [Decode(AMQPBinding, w.body, hs) EXCEPT !.topic = w.topic]
             ELSE LET e == DecodeEnvelope(w.body)
                  IN  [e EXCEPT !.headers = IF @ = <<>> THEN hs ELSE @]
    IN  [m EXCEPT !.id = Or(@, w.messageId)]

NatsEncode(m) == Encode(NATSBinding, m) @@ [topic |-> m.topic]

NatsDecode(w) ==
    LET m == IF IsBinary(w.headers) THEN Decode(NATSBinding, w.body, w.headers)
             ELSE DecodeEnvelope(w.body)
    IN  [m EXCEPT !.id = Or(@, "position"), !.topic = w.topic]

\* SQS, OCI Queue and Redis: the envelope in the body.
EnvelopeEncode(m) == [body |-> m, topic |-> m.topic]

EnvelopeDecode(w) == [DecodeEnvelope(w.body) EXCEPT !.id = Or(@, "position"), !.topic = w.topic]

WireOf(provider, m) ==
    CASE provider \in {"kafka", "kafka leader"} -> KafkaEncode(m)
      [] provider = "rabbitmq" -> RabbitEncode(FALSE, m)
      [] provider = "rabbitmq cloudevents" -> RabbitEncode(TRUE, m)
      [] provider = "nats" -> NatsEncode(m)
      [] OTHER -> EnvelopeEncode(m)

ReceivedFrom(provider, w, redelivered) ==
    CASE provider \in {"kafka", "kafka leader"} -> KafkaDecode(w)
      [] provider \in {"rabbitmq", "rabbitmq cloudevents"} -> RabbitDecode(w, redelivered)
      [] provider = "nats" -> NatsDecode(w)
      [] OTHER -> EnvelopeDecode(w)

\* What a handler may rely on: the identity, the routing, the payload and the
\* application's headers.
Preserved(m, r) ==
    /\ (m.id # Nil => r.id = m.id)
    /\ r.topic = m.topic /\ r.key = m.key /\ r.value = m.value
    /\ (m.type # DefaultEventType => r.type = m.type)
    /\ (m.time # Nil => r.time = m.time)
    /\ \A n \in DOMAIN m.headers \ {NameOfContentType} :
            n \in DOMAIN r.headers /\ r.headers[n] = m.headers[n]

-----------------------------------------------------------------------------
Providers == {"kafka", "kafka leader", "sqs", "sqs fifo", "oci", "redis pubsub", "redis streams", "nats"}

\* The brokers that keep what they have acknowledged: not Pub/Sub, and not Kafka
\* with Acks other than "all".
Durable(provider) == provider \notin {"redis pubsub", "kafka leader"}

Dedups(provider) == provider \in {"sqs fifo", "nats"}

VARIABLES
    provider,   \* the broker of the service
    original,   \* what the application wants sent
    sending,    \* the current call: its messages, as indexes of original
    known,      \* topics whose queue URL or stream is cached
    brokerHas,  \* wire records stored (by Pub/Sub: delivered), by index of original
    accepted,   \* history: the messages of requests that succeeded
    events      \* OnEvent of each message of the last call

sendVars == <<provider, original, sending, known, brokerHas, accepted, events>>

NoSend == [pc |-> "idle", idx |-> <<>>, left |-> <<>>, futures |-> {}, sends |-> 0,
           failed |-> {}, err |-> "nil"]

SendingInit ==
    /\ provider = "none" /\ original = <<>> /\ sending = NoSend
    /\ known = {} /\ brokerHas = <<>> /\ accepted = {} /\ events = <<>>

TopicOf(i) == original[i].topic

\* The requests of a call: SQS and OCI group by topic, in any order, SQS in
\* chunks; Redis sends one pipeline; Kafka's producer takes the batch; NATS
\* publishes one message after the other.
ByTopic(idx) ==
    LET topics == {TopicOf(idx[k]) : k \in DOMAIN idx}
        groups == [t \in topics |-> SelectSeq(idx, LAMBDA i : TopicOf(i) = t)]
    IN  {[k \in 1 .. Cardinality(topics) |-> groups[order[k]]] : order \in SetToSeqs(topics)}

Chunks(s) ==
    [c \in 1 .. (Len(s) + MaxBatchSize - 1) \div MaxBatchSize |->
        SubSeq(s, (c - 1) * MaxBatchSize + 1, IF c * MaxBatchSize < Len(s) THEN c * MaxBatchSize ELSE Len(s))]

Requests(idx) ==
    CASE provider \in {"sqs", "sqs fifo"} ->
            {FlattenSeq([k \in DOMAIN g |-> Chunks(g[k])]) : g \in ByTopic(idx)}
      [] provider = "oci" -> ByTopic(idx)
      [] provider = "nats" -> {[k \in DOMAIN idx |-> <<idx[k]>>]}
      [] OTHER -> {<<idx>>}

\* Redis refuses a batch with a message without topic before it sends any.
Refused(idx) ==
    provider \in {"redis pubsub", "redis streams"} /\ \E k \in DOMAIN idx : TopicOf(idx[k]) = Nil

Open(p, batch) ==
    /\ provider = "none"
    /\ provider' = p /\ original' = batch
    /\ sending' = [NoSend EXCEPT !.idx = [i \in DOMAIN batch |-> i], !.pc = "call"]
    /\ UNCHANGED <<known, brokerHas, accepted, events>>

\* producer.send: copies with the trace headers go to the provider.
Call ==
    /\ sending.pc = "call"
    /\ IF Refused(sending.idx)
       THEN sending' = [sending EXCEPT !.pc = "report", !.err = "batch"]
       ELSE \E r \in Requests(sending.idx) : sending' = [sending EXCEPT !.pc = "request", !.left = r]
    /\ UNCHANGED <<provider, original, known, brokerHas, accepted, events>>

\* External: two messages a broker takes for one.
SameToBroker(i, j) ==
    Dedups(provider) /\ original[i].id = original[j].id /\ TopicOf(i) = TopicOf(j)

\* What the broker has once it took a set of messages.
StoredBy(set) ==
    LET new == {i \in set : ~\E j \in DOMAIN brokerHas : SameToBroker(i, j)}
        first == {i \in new : ~\E j \in new : j < i /\ SameToBroker(i, j)}
    IN  brokerHas @@ [i \in first |-> WireOf(provider, original[i])]

\* The broker acknowledges a set of messages; one that is not durable may keep
\* any part of them.
Takes(set) ==
    /\ accepted' = accepted \cup set
    /\ \E kept \in IF Durable(provider) THEN {set} ELSE SUBSET set : brokerHas' = StoredBy(kept)

Fails(stored) ==
    /\ brokerHas' = StoredBy(stored) /\ UNCHANGED accepted
    /\ sending' = [sending EXCEPT !.pc = "report", !.err = "batch"]

\* queueURLs.resolve and Broker.stream: asked once per topic.
Resolves == provider \in {"sqs", "sqs fifo", "nats"}

Learn(topic) == known' = known \cup (IF Resolves THEN {topic} ELSE {})

\* A topic that does not resolve ends the batch; so does a request that fails,
\* of which the broker may have stored any part.
RequestFails ==
    LET req == Head(sending.left)
        topic == TopicOf(Head(req))
    IN
    /\ sending.pc = "request" /\ sending.left # <<>>
    /\ \/ /\ topic = Nil \/ (Resolves /\ topic \notin known)
          /\ \E s \in SUBSET sending.futures : Fails(s)
          /\ UNCHANGED known
       \/ /\ topic # Nil
          /\ \E s \in SUBSET (ToSet(req) \cup sending.futures) : Fails(s)
          /\ Learn(topic)
    /\ UNCHANGED <<provider, original, events>>

\* kafkaProducer.SendMessagesBatch: the messages that failed are named.
RequestPartial ==
    LET all == ToSet(Head(sending.left))
    IN
    /\ sending.pc = "request" /\ sending.left # <<>> /\ provider \in {"kafka", "kafka leader"}
    /\ \E bad \in SUBSET all :
            /\ bad # {} /\ {i \in all : TopicOf(i) = Nil} \subseteq bad
            /\ Takes(all \ bad)
            /\ sending' = [sending EXCEPT !.pc = "report", !.err = "partial", !.failed = bad]
    /\ UNCHANGED <<provider, original, known, events>>

\* JetStream publishes asynchronously: the ack is waited for after the last one.
RequestSucceeds ==
    LET req == Head(sending.left)
    IN
    /\ sending.pc = "request" /\ sending.left # <<>>
    /\ \A i \in ToSet(req) : TopicOf(i) # Nil
    /\ IF provider = "nats"
       THEN sending' = [sending EXCEPT !.left = Tail(@), !.futures = @ \cup ToSet(req)]
            /\ UNCHANGED <<brokerHas, accepted>>
       ELSE sending' = [sending EXCEPT !.left = Tail(@)] /\ Takes(ToSet(req))
    /\ Learn(TopicOf(Head(req)))
    /\ UNCHANGED <<provider, original, events>>

\* Every request is done, and every future of a NATS batch is answered: one
\* that is not an ack, or ctx, fails the batch.
WaitFutures ==
    /\ sending.pc = "request" /\ sending.left = <<>>
    /\ \/ /\ sending.futures # {}
          /\ \E s \in SUBSET sending.futures : Fails(s)
       \/ /\ Takes(sending.futures)
          /\ sending' = [sending EXCEPT !.pc = "report"]
    /\ UNCHANGED <<provider, original, known, events>>

\* One event per message: an error is every message's, unless it is partial.
Report ==
    /\ sending.pc = "report"
    /\ events' = [k \in DOMAIN sending.idx |->
                    IF sending.err = "nil" \/ (sending.err = "partial" /\ sending.idx[k] \notin sending.failed)
                    THEN "message_sent" ELSE "producer_error"]
    /\ sending' = [sending EXCEPT !.pc = "returned", !.sends = @ + 1]
    /\ UNCHANGED <<provider, original, known, brokerHas, accepted>>

\* External: the application sends again what was not sent.
SendAgain ==
    /\ sending.pc = "returned" /\ sending.err # "nil" /\ sending.sends < MaxSends
    /\ sending' = [NoSend EXCEPT !.pc = "call", !.sends = sending.sends,
                     !.idx = SelectSeq(sending.idx, LAMBDA i : sending.err = "batch" \/ i \in sending.failed)]
    /\ events' = <<>>
    /\ UNCHANGED <<provider, original, known, brokerHas, accepted>>

SendingNext ==
    \/ \E p \in Providers, b \in SendBatches : Open(p, b)
    \/ Call \/ RequestFails \/ RequestPartial \/ RequestSucceeds \/ WaitFutures
    \/ Report \/ SendAgain

SendingSpec == SendingInit /\ [][SendingNext]_sendVars
-----------------------------------------------------------------------------
\* The broker has a message, itself or as one it deduplicated it with.
BrokerHas(i) ==
    i \in DOMAIN brokerHas \/ \E j \in DOMAIN brokerHas : SameToBroker(i, j)

\* A stored message reaches a handler as it was sent (msqtest:
\* RoundTripPreservesMessage).
RoundTrip ==
    \A i \in DOMAIN brokerHas : \A redelivered \in BOOLEAN :
        /\ Preserved(original[i], ReceivedFrom(provider, brokerHas[i], redelivered))
        /\ \A r \in {"rabbitmq", "rabbitmq cloudevents"} :
                Preserved(original[i], ReceivedFrom(r, WireOf(r, original[i]), redelivered))

\* A message counts as sent when the broker took it, which a durable one keeps.
SentOK(i) == i \in accepted /\ (Durable(provider) => BrokerHas(i))

\* A message reported as sent was taken by the broker, and stored by a durable
\* one, whatever part of its batch failed; once the application's last call
\* returns nil the whole batch was; and what is stored reaches a handler as it
\* was sent (SendMessagesBatch, decode).
SentMeansStored ==
    /\ \A k \in DOMAIN events : events[k] = "message_sent" => SentOK(sending.idx[k])
    /\ sending.pc = "returned" /\ sending.err = "nil" => \A i \in DOMAIN original : SentOK(i)
    /\ RoundTrip
=============================================================================
