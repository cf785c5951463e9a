--------------------------- MODULE RabbitProducer ---------------------------
(***************************************************************************)
(* The producer of msq/provider/rabbitmq: SendMessage and                  *)
(* SendMessagesBatch over one shared channel in confirm mode, which is     *)
(* re-opened after a loss, and the returnTracker of conn.go that tells a   *)
(* message stored by the broker from one returned as unroutable.           *)
(*                                                                         *)
(* A call is a batch (SendMessage is a batch of one).  A publish is a pair *)
(* <<call, index>>; the frames to and from the broker are FIFO.  External: *)
(* the broker answers a publish no queue is bound for with a return, then  *)
(* an ack, and amqp091 resolves the confirms of a lost channel as not      *)
(* acked.                                                                  *)
(***************************************************************************)
EXTENDS RabbitConn, Sequences, SequencesExt

CONSTANTS
    Sender,         \* goroutines that call the producer
    BoundTopic,     \* topics some queue is bound for
    Batches         \* the programs: what each sender sends, as a function

VARIABLES
    batch,      \* the messages of each call, [id, topic]
    call,       \* where each call is
    pub,        \* confirm and return of each publish
    pch,        \* the producer's channel, and the channels opened so far
    pending,    \* the tracked publishes, oldest first
    wire, replies,  \* frames on their way to the broker and back
    rets,       \* returns the listener has buffered
    stored      \* publishes the broker has stored

producerVars == <<batch, call, pub, pch, pending, wire, replies, rets, stored>>

RabbitProducerInit ==
    /\ batch = [c \in Sender |-> <<>>]
    /\ call = [c \in Sender |-> [pc |-> "idle", i |-> 1, attempt |-> 0, sent |-> 0, err |-> FALSE]]
    /\ pub = [c \in Sender |-> <<>>]
    /\ pch = [link |-> 0, ok |-> FALSE, n |-> 0]
    /\ pending = <<>> /\ wire = <<>> /\ replies = <<>> /\ rets = <<>> /\ stored = {}

Msg(p) == batch[p[1]][p[2]]

Unsent == [n |-> 0, conf |-> "none", ret |-> FALSE]

Begin ==
    /\ \A c \in Sender : batch[c] = <<>>
    /\ \E b \in Batches :
        /\ batch' = b
        /\ pub' = [c \in Sender |-> [i \in DOMAIN b[c] |-> Unsent]]
        /\ call' = [c \in Sender |-> [call[c] EXCEPT !.pc = IF b[c] = <<>> THEN "done" ELSE "channel"]]
    /\ UNCHANGED <<pch, pending, wire, replies, rets, stored>>

\* The publishes of a call stop at i; the confirms of the others are awaited.
StopBatch(c, err) ==
    [call[c] EXCEPT !.pc = "wait", !.sent = call[c].i - 1, !.i = 1, !.attempt = 0, !.err = err]

\* publish: producer.channel, then Publish tracks the message.
GetChannel(c) ==
    /\ call[c].pc = "channel"
    /\ \/ /\ IsOpen(pch)
          /\ UNCHANGED <<pch, wire, replies>>
          /\ pub' = [pub EXCEPT ![c][call[c].i].n = pch.n]
          /\ pending' = Append(pending, <<c, call[c].i>>)
          /\ call' = [call EXCEPT ![c].pc = "publish"]
       \/ /\ ~IsOpen(pch) /\ CanOpen
          /\ pch' = [link |-> conn.link, ok |-> TRUE, n |-> pch.n + 1]
          /\ wire' = <<>> /\ replies' = <<>>
          /\ pub' = [pub EXCEPT ![c][call[c].i].n = pch.n + 1]
          /\ pending' = Append(pending, <<c, call[c].i>>)
          /\ call' = [call EXCEPT ![c].pc = "publish"]
       \/ /\ ~IsOpen(pch) /\ ~CanOpen
          /\ call' = [call EXCEPT ![c] = StopBatch(c, TRUE)]
          /\ UNCHANGED <<pub, pending, pch, wire, replies>>
    /\ UNCHANGED <<batch, rets, stored>>

OnChannel(n) == n = pch.n /\ IsOpen(pch)

\* The frame is written, or the publish fails: on a closed channel it is
\* retried once, any other error is returned.
Publish(c) ==
    LET p == <<c, call[c].i>> IN
    /\ call[c].pc = "publish"
    /\ \/ /\ OnChannel(pub[c][p[2]].n)
          /\ wire' = Append(wire, p)
          /\ call' = [call EXCEPT ![c] =
                        IF p[2] < Len(batch[c]) THEN [@ EXCEPT !.pc = "channel", !.i = @ + 1, !.attempt = 0]
                        ELSE [@ EXCEPT !.pc = "wait", !.sent = p[2], !.i = 1, !.attempt = 0]]
          /\ UNCHANGED pending
       \/ /\ pending' = Remove(pending, p)
          /\ \/ /\ ~OnChannel(pub[c][p[2]].n) /\ call[c].attempt = 0
                /\ call' = [call EXCEPT ![c].pc = "channel", ![c].attempt = 1]
             \/ call' = [call EXCEPT ![c] = StopBatch(c, TRUE)]
          /\ UNCHANGED wire
    /\ UNCHANGED <<batch, pub, pch, replies, rets, stored>>
-----------------------------------------------------------------------------
(* The broker and the channel's reader.                                    *)

BrokerTakes ==
    /\ wire # <<>> /\ IsOpen(pch)
    /\ wire' = Tail(wire)
    /\ LET p == Head(wire) IN
       \/ /\ Msg(p).topic \in BoundTopic
          /\ stored' = stored \cup {p}
          /\ replies' = Append(replies, <<"ack", p>>)
       \/ /\ Msg(p).topic \notin BoundTopic
          /\ replies' = replies \o <<<<"return", p>>, <<"ack", p>>>>
          /\ UNCHANGED stored
       \/ /\ replies' = Append(replies, <<"nack", p>>)
          /\ UNCHANGED stored
    /\ UNCHANGED <<batch, call, pub, pch, pending, rets>>

\* A return goes to the listener's buffer, an ack or a nack to the confirm.
ReaderTakes ==
    /\ replies # <<>> /\ IsOpen(pch)
    /\ replies' = Tail(replies)
    /\ LET r == Head(replies) IN
       IF r[1] = "return"
       THEN rets' = Append(rets, [p |-> r[2], n |-> pch.n]) /\ UNCHANGED pub
       ELSE pub' = [pub EXCEPT ![r[2][1]][r[2][2]].conf = r[1]] /\ UNCHANGED rets
    /\ UNCHANGED <<batch, call, pch, pending, wire, stored>>
-----------------------------------------------------------------------------
(* The returnTracker.                                                      *)

\* match: the oldest publish of the channel with this MessageId that no
\* return has marked.
Matched(pb, ret) ==
    LET cand == SelectSeq(pending, LAMBDA p : /\ Msg(p).id = Msg(ret.p).id
                                              /\ pb[p[1]][p[2]].n = ret.n
                                              /\ ~pb[p[1]][p[2]].ret)
    IN  IF cand = <<>> THEN pb
        ELSE [pb EXCEPT ![Head(cand)[1]][Head(cand)[2]].ret = TRUE]

TrackerRuns ==
    /\ rets # <<>>
    /\ pub' = Matched(pub, Head(rets))
    /\ rets' = Tail(rets)
    /\ UNCHANGED <<batch, call, pch, pending, wire, replies, stored>>

\* drain: every buffered return of the channel is matched, in order.
Drained(n) == FoldLeft(Matched, pub, SelectSeq(rets, LAMBDA r : r.n = n))

WaitEnds(c, err) ==
    /\ pending' = Remove(pending, <<c, call[c].i>>)
    /\ call' = [call EXCEPT ![c].pc = "wait", ![c].i = @ + 1, ![c].err = @ \/ err]

NotAcked(pb) == pb.conf = "nack" \/ (pb.conf = "none" /\ ~OnChannel(pb.n))

\* Variant: result does not wait for the returns that are buffered.
WaitConfirmNoSync(c) ==
    /\ call[c].pc = "wait" /\ call[c].i <= call[c].sent
    /\ \/ /\ NotAcked(pub[c][call[c].i])
          /\ WaitEnds(c, TRUE)
       \/ /\ pub[c][call[c].i].conf = "ack"
          /\ call' = [call EXCEPT ![c].pc = "synced"]
          /\ UNCHANGED pending
    /\ UNCHANGED <<batch, pub, rets, pch, wire, replies, stored>>

\* wait: the confirm, then the tracker's sync, then the return.
WaitConfirm(c) ==
    /\ call[c].pc = "wait" /\ call[c].i <= call[c].sent
    /\ \/ /\ NotAcked(pub[c][call[c].i])
          /\ WaitEnds(c, TRUE) /\ UNCHANGED <<pub, rets>>
       \/ /\ pub[c][call[c].i].conf = "ack"
          /\ pub' = Drained(pub[c][call[c].i].n)
          /\ rets' = SelectSeq(rets, LAMBDA r : r.n # pub[c][call[c].i].n)
          /\ call' = [call EXCEPT ![c].pc = "synced"]
          /\ UNCHANGED pending
    /\ UNCHANGED <<batch, pch, wire, replies, stored>>

WaitResult(c) ==
    /\ call[c].pc = "synced"
    /\ WaitEnds(c, pub[c][call[c].i].ret)
    /\ UNCHANGED <<batch, pub, pch, wire, replies, rets, stored>>

\* The caller's context ends while it waits for a confirm.
WaitCanceled(c) ==
    /\ call[c].pc = "wait" /\ call[c].i <= call[c].sent
    /\ WaitEnds(c, TRUE)
    /\ UNCHANGED <<batch, pub, pch, wire, replies, rets, stored>>

SendReturns(c) ==
    /\ call[c].pc = "wait" /\ call[c].i > call[c].sent
    /\ call' = [call EXCEPT ![c].pc = "done"]
    /\ UNCHANGED <<batch, pub, pch, pending, wire, replies, rets, stored>>

\* External: the broker closes the channel alone.
ProducerChannelLost ==
    /\ IsOpen(pch) /\ conn.drops < MaxDrops
    /\ conn' = [conn EXCEPT !.drops = @ + 1]
    /\ pch' = [pch EXCEPT !.ok = FALSE]
    /\ UNCHANGED <<batch, call, pub, pending, wire, replies, rets, stored>>

ProducerStep ==
    \/ Begin \/ BrokerTakes \/ ReaderTakes \/ TrackerRuns
    \/ \E c \in Sender : \/ GetChannel(c) \/ Publish(c) \/ WaitConfirm(c)
                         \/ WaitResult(c) \/ WaitCanceled(c) \/ SendReturns(c)

RabbitProducerNext ==
    \/ ProducerStep /\ UNCHANGED conn
    \/ ProducerChannelLost
    \/ (RabbitConnStep \/ Drop) /\ UNCHANGED producerVars

RabbitProducerSpec ==
    RabbitConnInit /\ RabbitProducerInit /\ [][RabbitProducerNext]_<<conn, producerVars>>
-----------------------------------------------------------------------------
\* Another sender, or another topic, has a publish with the same MessageId.
Ambiguous(p) ==
    \E c \in Sender : \E i \in DOMAIN batch[c] :
        batch[c][i].id = Msg(p).id /\ (c # p[1] \/ batch[c][i].topic # Msg(p).topic)

\* A send that returns nil was stored by the broker, every message of it: an
\* unroutable message is acked too, and only the tracker tells (conn.go: "A
\* message returned as unroutable fails with ErrUnroutable").  Returns are
\* matched by MessageId to the oldest tracked publish, so this needs a message
\* not to be sent by two goroutines, or to two topics, at once.
NilMeansStored ==
    \A c \in Sender : call[c].pc = "done" /\ ~call[c].err =>
        \A i \in DOMAIN batch[c] : <<c, i>> \in stored \/ Ambiguous(<<c, i>>)
=============================================================================
