--------------------------- MODULE MessagingProofs ---------------------------
(***************************************************************************)
(* The proofs about the push brokers, the consumer manager and the broker  *)
(* service, for any number of messages, pods, entries, failures, managers  *)
(* and callers: what the RabbitMQ consumer counts, the order of a Kafka    *)
(* partition, the drain that CloseContext promises, and the consumers a    *)
(* manager starts, supervises and calls healthy.                           *)
(***************************************************************************)
EXTENDS RabbitConsumer, KafkaConsumer, BrokerService, ConsumerManager, TLAPS

(* What the RabbitMQ consumer counts. *)

\* A delivery the worker pool has.
IsJob(j) == DOMAIN j = {"m", "at", "pc", "count"} /\ j.m \in AmqpMessage /\ j.count \in Nat

\* Neither a handler's count nor the tracker is ahead of the broker.
RabbitInv ==
    /\ DOMAIN queue = AmqpMessage
    /\ \A m \in AmqpMessage : DOMAIN queue[m] = {"at", "gone", "seen"} /\ queue[m].seen \in Nat
    /\ nacks \in [AmqpMessage -> Nat]
    /\ \A m \in AmqpMessage : nacks[m] <= queue[m].seen
    /\ \A j \in jobs : IsJob(j) /\ j.count <= queue[j.m].seen

\* The deliveries of a message only grow; jobs end or keep their count.
LEMMA RabbitMoves ==
    ASSUME RabbitInv, DOMAIN queue' = AmqpMessage, nacks' \in [AmqpMessage -> Nat],
           \A m \in AmqpMessage : /\ DOMAIN queue'[m] = {"at", "gone", "seen"}
                                  /\ queue'[m].seen \in Nat /\ queue[m].seen <= queue'[m].seen,
           \A m \in AmqpMessage : \/ nacks'[m] = nacks[m] \/ nacks'[m] = 0
                                  \/ \E j \in jobs : j.m = m /\ nacks'[m] = j.count,
           \A j \in jobs' : \/ j \in jobs
                            \/ IsJob(j) /\ \E i \in jobs : i.m = j.m /\ i.count = j.count
                            \/ IsJob(j) /\ j.count <= queue'[j.m].seen
    PROVE  RabbitInv'
<1>1. ASSUME NEW m \in AmqpMessage, NEW n \in Nat, n <= queue[m].seen PROVE n <= queue'[m].seen
  <2>1. queue[m].seen \in Nat /\ queue'[m].seen \in Nat /\ queue[m].seen <= queue'[m].seen
    BY Zenon DEF RabbitInv
  <2> QED
    BY <1>1, <2>1
<1>2. ASSUME NEW m \in AmqpMessage PROVE nacks'[m] <= queue'[m].seen
  <2>1. CASE nacks'[m] = nacks[m]
    BY Zenon, <1>1, <2>1 DEF RabbitInv
  <2>2. CASE nacks'[m] = 0
    BY <2>2
  <2>3. CASE \E j \in jobs : j.m = m /\ nacks'[m] = j.count
    BY Zenon, <1>1, <2>3 DEF RabbitInv, IsJob
  <2> QED
    BY Zenon, <2>1, <2>2, <2>3
<1>3. ASSUME NEW j \in jobs' PROVE IsJob(j) /\ j.count <= queue'[j.m].seen
  <2>1. CASE j \in jobs
    BY Zenon, <1>1, <2>1 DEF RabbitInv, IsJob
  <2>2. CASE IsJob(j) /\ \E i \in jobs : i.m = j.m /\ i.count = j.count
    <3>1. PICK i \in jobs : i.m = j.m /\ i.count = j.count
      BY Zenon, <2>2
    <3>2. j.m \in AmqpMessage /\ j.count \in Nat /\ j.count <= queue[j.m].seen
      BY Zenon, <2>2, <3>1 DEF RabbitInv, IsJob
    <3> QED
      BY Zenon, <1>1, <2>2, <3>2
  <2> QED
    BY Zenon, <1>3, <2>1, <2>2
<1> QED
  BY Zenon, <1>2, <1>3 DEF RabbitInv, IsJob

\* What count returns is at most the deliveries made, this one included.
LEMMA CountBounded ==
    ASSUME RabbitInv, NEW m \in AmqpMessage
    PROVE  /\ DeliveryCount(m, queue[m].seen + 1) \in Nat
           /\ DeliveryCount(m, queue[m].seen + 1) <= queue[m].seen + 1
<1>1. queue[m].seen \in Nat /\ nacks[m] \in Nat /\ nacks[m] <= queue[m].seen
  BY Zenon DEF RabbitInv
<1> QED
  BY <1>1 DEF DeliveryCount, Max2

\* The settling of a message touches where it is, not what was counted.
LEMMA SettleKeepsSeen ==
    ASSUME RabbitInv, NEW n \in AmqpMessage,
           queue' \in {queue, [queue EXCEPT ![n].at = 0], [queue EXCEPT ![n].gone = TRUE, ![n].at = 0]}
    PROVE  /\ DOMAIN queue' = AmqpMessage
           /\ \A m \in AmqpMessage : /\ DOMAIN queue'[m] = {"at", "gone", "seen"}
                                     /\ queue'[m].seen \in Nat /\ queue[m].seen <= queue'[m].seen
<1>1. DOMAIN queue' = AmqpMessage
  BY Zenon DEF RabbitInv
<1>2. ASSUME NEW m \in AmqpMessage PROVE DOMAIN queue'[m] = {"at", "gone", "seen"} /\ queue'[m].seen = queue[m].seen
  BY DEF RabbitInv
<1>3. ASSUME NEW m \in AmqpMessage PROVE queue[m].seen \in Nat /\ queue[m].seen <= queue[m].seen
  BY DEF RabbitInv
<1> QED
  BY Zenon, <1>1, <1>2, <1>3

\* The broker delivers a message once more, and handle counts it.
LEMMA DeliverCounts == ASSUME RabbitInv, NEW n \in AmqpMessage, Deliver(n) PROVE RabbitInv'
<1>1. PICK k : /\ k = DeliveryCount(n, queue[n].seen + 1)
               /\ jobs' = jobs \cup {[m |-> n, at |-> amqp.opened, pc |-> "run", count |-> k]}
  BY Zenon DEF Deliver
<1>2. k \in Nat /\ k <= queue[n].seen + 1
  BY Zenon, <1>1, CountBounded
<1>3. nacks' = nacks /\ queue' = [queue EXCEPT ![n].at = amqp.opened, ![n].seen = queue[n].seen + 1]
  BY DEF Deliver, RabbitInv
<1>4. DOMAIN queue' = AmqpMessage
  BY Zenon, <1>3 DEF RabbitInv
<1>5. /\ DOMAIN queue'[n] = {"at", "gone", "seen"} /\ queue'[n].seen = queue[n].seen + 1
      /\ \A m \in AmqpMessage \ {n} : queue'[m] = queue[m]
  BY <1>3 DEF RabbitInv
<1>6. ASSUME NEW m \in AmqpMessage
      PROVE  /\ DOMAIN queue'[m] = {"at", "gone", "seen"}
             /\ queue'[m].seen \in Nat /\ queue[m].seen <= queue'[m].seen
  BY <1>5 DEF RabbitInv
<1>7. ASSUME NEW j \in jobs'
      PROVE  j \in jobs \/ (IsJob(j) /\ j.count <= queue'[j.m].seen)
  <2>1. CASE j = [m |-> n, at |-> amqp.opened, pc |-> "run", count |-> k]
    BY <1>2, <1>5, <2>1 DEF IsJob
  <2> QED
    BY Zenon, <1>1, <1>7, <2>1
<1> QED
  BY Zenon, <1>3, <1>4, <1>6, <1>7, RabbitMoves DEF RabbitInv

\* A job of whatever channel, lost or open, ends without counting ahead.
LEMMA JobCounts == ASSUME RabbitInv, JobStep PROVE RabbitInv'
<1>1. PICK j \in jobs : HandleNack(j) \/ Requeue(j) \/ HandleSettle(j) \/ HandlePanic(j)
  BY Zenon DEF JobStep
<1>2. IsJob(j) /\ j.m \in AmqpMessage /\ j.count \in Nat /\ 0 \in Nat
  BY DEF RabbitInv, IsJob
<1>3. /\ DOMAIN queue' = AmqpMessage
      /\ \A m \in AmqpMessage : /\ DOMAIN queue'[m] = {"at", "gone", "seen"}
                                /\ queue'[m].seen \in Nat /\ queue[m].seen <= queue'[m].seen
  <2>1. queue' \in {queue, [queue EXCEPT ![j.m].at = 0], [queue EXCEPT ![j.m].gone = TRUE, ![j.m].at = 0]}
    BY Zenon, <1>1 DEF HandleNack, Requeue, HandleSettle, HandlePanic
  <2> QED
    BY Zenon, <1>2, <2>1, SettleKeepsSeen
<1>4. /\ nacks' \in [AmqpMessage -> Nat]
      /\ \A m \in AmqpMessage : nacks'[m] = nacks[m] \/ nacks'[m] = 0 \/ (j.m = m /\ nacks'[m] = j.count)
  <2>1. nacks' \in {nacks, [nacks EXCEPT ![j.m] = j.count], [nacks EXCEPT ![j.m] = 0],
                    [m \in AmqpMessage |-> IF m = j.m THEN j.count ELSE 0]}
    BY Zenon, <1>1 DEF HandleNack, Requeue, HandleSettle, HandlePanic
  <2>2. nacks \in [AmqpMessage -> Nat]
    BY Zenon DEF RabbitInv
  <2>3. nacks' \in [AmqpMessage -> Nat]
    BY Zenon, <1>2, <2>1, <2>2
  <2>4. ASSUME NEW m \in AmqpMessage
        PROVE  nacks'[m] = nacks[m] \/ nacks'[m] = 0 \/ (j.m = m /\ nacks'[m] = j.count)
    BY Zenon, <1>2, <2>1, <2>2
  <2> QED
    BY Zenon, <2>3, <2>4
<1>5. ASSUME NEW i \in jobs' PROVE i \in jobs \/ (IsJob(i) /\ i.m = j.m /\ i.count = j.count)
  <2>1. jobs' = jobs \ {j} \/ jobs' = (jobs \ {j}) \cup {[j EXCEPT !.pc = "delay"]}
    BY Zenon, <1>1 DEF HandleNack, Requeue, HandleSettle, HandlePanic
  <2>2. CASE i = [j EXCEPT !.pc = "delay"]
    BY <1>2, <2>2 DEF IsJob
  <2> QED
    BY Zenon, <1>5, <2>1, <2>2
<1> QED
  BY Zenon, <1>3, <1>4, <1>5, RabbitMoves

LEMMA RabbitStep == RabbitInv /\ [RabbitConsumerNext]_rabbitConsumerVars => RabbitInv'
<1> SUFFICES ASSUME RabbitInv, [RabbitConsumerNext]_rabbitConsumerVars PROVE RabbitInv'
  OBVIOUS
<1>1. CASE UNCHANGED <<queue, jobs, nacks>>
  BY Zenon, <1>1 DEF RabbitInv
<1>2. CASE ConsumeStep \/ NewAmqpConsumer \/ CtxEnds \/ AfterFunc \/ ChannelLost \/ Pause \/ PauseCancel \/ Resume
  BY Zenon, <1>1, <1>2 DEF ConsumeStep, ConsumeOnChannel, DeliveriesEnd, GateWait, ReopenSleep, ReopenOpen,
     ConsumeReturns, NewAmqpConsumer, CtxEnds, AfterFunc, ChannelLost, Pause, PauseCancel, Resume
<1>3. CASE UNCHANGED consumerVars \/ UNCHANGED rabbitConsumerVars
  BY Zenon, <1>1, <1>3 DEF consumerVars, rabbitConsumerVars
<1> QED
  BY Zenon, <1>2, <1>3, JobCounts, DeliverCounts DEF RabbitConsumerNext

\* For any number of messages, workers and lost channels, and any limit of the
\* tracker, a handler never sees more deliveries than the broker made.
THEOREM CountsStayBelow == RabbitConsumerSpec => []CountNotAbove
<1>1. RabbitConsumerInit => RabbitInv
  BY DEF RabbitConsumerInit, RabbitInv
<1>2. RabbitInv => CountNotAbove
  BY Zenon DEF RabbitInv, CountNotAbove
<1> QED
  BY <1>1, <1>2, RabbitStep, PTL DEF RabbitConsumerSpec
-----------------------------------------------------------------------------
(* The partition of KafkaConsumer. *)

MemberPC == {"group", "join", "claim", "handle", "wait", "exit", "returned"}
Member == [pc : MemberPC, ctx : BOOLEAN, paused : BOOLEAN, gen : Nat, revoked : BOOLEAN,
           at : Nat, marked : Nat, held : BOOLEAN]
Group == [gen : Nat, owner : Pod \cup {None}, committed : Nat]

\* Settled, or never the group's to handle.
Passed == settled \cup skipped

\* All records below the one a session is at have passed, and only such a record
\* is marked.
Behind(p) ==
    InSession(p) => /\ member[p].marked < member[p].at
                    /\ \A o \in Nat : 1 <= o /\ o < member[p].at => o \in Passed

Committed == \A o \in Nat : 1 <= o /\ o <= group.committed => o \in Passed

KafkaInv ==
    /\ log \in Nat /\ group \in Group /\ member \in [Pod -> Member]
    /\ Committed
    /\ \A p \in Pod : Behind(p)

\* Pods that stay in a session keep their place; more may have passed.
LEMMA MembersKeepPlace ==
    ASSUME KafkaInv, log' \in Nat, group' \in Group, member' \in [Pod -> Member],
           group'.committed = group.committed \/ Committed', Passed \subseteq Passed',
           \A p \in Pod : InSession(p)' =>
                \/ Behind(p)'
                \/ InSession(p) /\ member'[p].at = member[p].at /\ member'[p].marked = member[p].marked
    PROVE  KafkaInv'
<1>1. ASSUME NEW p \in Pod PROVE Behind(p)'
  <2>1. CASE InSession(p) /\ member'[p].at = member[p].at /\ member'[p].marked = member[p].marked
    BY Zenon, <2>1 DEF KafkaInv, Behind
  <2> QED
    BY Zenon, <2>1 DEF Behind
<1>2. Committed'
  BY Zenon DEF KafkaInv, Committed
<1> QED
  BY Zenon, <1>1, <1>2 DEF KafkaInv

\* One pod moves, and is behind what has passed if it is in a session.
LEMMA PodMoves ==
    ASSUME KafkaInv, NEW p \in Pod, NEW r \in Member, member' = [member EXCEPT ![p] = r],
           log' \in Nat, group' \in Group, group'.committed = group.committed \/ Committed', Passed \subseteq Passed',
           \/ Behind(p)'
           \/ r.pc \notin {"claim", "handle", "wait", "exit"}
           \/ InSession(p) /\ r.at = member[p].at /\ r.marked = member[p].marked
    PROVE  KafkaInv'
<1>1. member' \in [Pod -> Member] /\ member'[p] = r /\ \A q \in Pod \ {p} : member'[q] = member[q]
  BY Zenon DEF KafkaInv
<1>2. ASSUME NEW q \in Pod, InSession(q)'
      PROVE  \/ Behind(q)'
             \/ InSession(q) /\ member'[q].at = member[q].at /\ member'[q].marked = member[q].marked
  <2>1. CASE q = p
    BY Zenon, <1>1, <1>2, <2>1 DEF InSession
  <2>2. CASE q # p
    BY Zenon, <1>1, <1>2, <2>2 DEF InSession
  <2> QED
    BY Zenon, <2>1, <2>2
<1> QED
  BY Zenon, <1>1, <1>2, MembersKeepPlace

\* A commit is of a marked record, or is none.
LEMMA CommitPassed ==
    ASSUME KafkaInv, NEW p \in Pod, InSession(p)
    PROVE  /\ Commit(p) \in Group
           /\ \A o \in Nat : 1 <= o /\ o <= Commit(p).committed => o \in Passed
<1>1. group \in Group /\ member[p] \in Member /\ member[p].marked \in Nat /\ member[p].at \in Nat
  BY Zenon DEF KafkaInv, Member
<1>2. CASE Commit(p) = group
  BY Zenon, <1>1, <1>2 DEF KafkaInv, Committed
<1>3. CASE Commit(p) = [group EXCEPT !.committed = member[p].marked]
  <2>1. Commit(p) \in Group /\ Commit(p).committed = member[p].marked
    BY Zenon, <1>1, <1>3 DEF Group
  <2>2. member[p].marked < member[p].at /\ \A o \in Nat : 1 <= o /\ o < member[p].at => o \in Passed
    BY Zenon DEF KafkaInv, Behind
  <2>3. \A o \in Nat : o <= member[p].marked => o < member[p].at
    BY <1>1, <2>2
  <2> QED
    BY Zenon, <2>1, <2>2, <2>3
<1> QED
  BY Zenon, <1>2, <1>3 DEF Commit

\* A pod keeps its place when only these parts of it change.
LEMMA PodSteps ==
    ASSUME KafkaInv, NEW p \in Pod
    PROVE  /\ member[p] \in Member
           /\ \A c \in MemberPC : [member[p] EXCEPT !.pc = c] \in Member
           /\ \A c \in MemberPC : /\ [member[p] EXCEPT !.pc = c].pc = c
                                  /\ [member[p] EXCEPT !.pc = c].at = member[p].at
                                  /\ [member[p] EXCEPT !.pc = c].marked = member[p].marked
<1>1. member[p] \in Member
  BY Zenon DEF KafkaInv
<1> QED
  BY Zenon, <1>1 DEF Member

\* A pod goes on in its session, or is not in one afterwards.
LEMMA PodGoes ==
    ASSUME KafkaInv, NEW p \in Pod, NEW c \in MemberPC, member' = [member EXCEPT ![p].pc = c],
           UNCHANGED <<log, group, settled, skipped>>,
           InSession(p) \/ c \notin {"claim", "handle", "wait", "exit"}
    PROVE  KafkaInv'
<1>1. PICK r \in Member : /\ r = [member[p] EXCEPT !.pc = c]
                          /\ r.pc = c /\ r.at = member[p].at /\ r.marked = member[p].marked
  BY ZenonT(40), PodSteps
<1>2. member' = [member EXCEPT ![p] = r]
  BY Zenon, <1>1
<1>3. log' \in Nat /\ group' \in Group /\ group'.committed = group.committed /\ Passed \subseteq Passed'
  BY Zenon DEF KafkaInv, Passed
<1> QED
  BY Zenon, <1>1, <1>2, <1>3, PodMoves

\* The claim starts after what is committed, or after what the policy skips.
LEMMA JoinStep == ASSUME KafkaInv, NEW p \in Pod, Join(p) PROVE KafkaInv'
<1>1. StartAt \in Nat /\ StartAt > 0 /\ log \in Nat /\ group \in Group /\ group.gen \in Nat /\ group.committed \in Nat
  <2>1. log \in Nat /\ group \in Group /\ group.gen \in Nat /\ group.committed \in Nat
    BY Zenon DEF KafkaInv, Group
  <2> QED
    BY <2>1 DEF StartAt
<1>2. PICK r : r = [member[p] EXCEPT !.pc = "claim", !.gen = group.gen, !.revoked = FALSE,
                                     !.at = StartAt, !.marked = 0, !.held = FALSE]
  BY Zenon
<1>3. r \in Member /\ r.at = StartAt /\ r.marked = 0
  <2>1. member[p] \in Member /\ 0 \in Nat
    BY PodSteps
  <2> QED
    BY Zenon, <1>1, <1>2, <2>1 DEF Member, MemberPC
<1>4. member' = [member EXCEPT ![p] = r]
  BY Zenon, <1>2 DEF Join
<1>5. group' \in Group /\ group'.committed = group.committed
  BY Zenon, <1>1 DEF Join, Group
<1>6. Passed \subseteq Passed' /\ log' \in Nat
  BY Zenon, <1>1 DEF Join, Passed
<1>7. \A o \in Nat : 1 <= o /\ o < StartAt => o \in Passed'
  <2> SUFFICES ASSUME NEW o \in Nat, 1 <= o, o < StartAt PROVE o \in Passed'
    OBVIOUS
  <2>1. CASE NoCommit
    <3>1. o \in 1 .. StartAt - 1
      BY <1>1
    <3> QED
      BY Zenon, <2>1, <3>1 DEF Join, Passed
  <2>2. CASE ~NoCommit
    <3>1. o <= group.committed
      BY <1>1, <2>2 DEF StartAt
    <3> QED
      BY Zenon, <1>6, <3>1 DEF KafkaInv, Committed
  <2> QED
    BY Zenon, <2>1, <2>2
<1>8. Behind(p)'
  <2>1. member'[p] = r
    BY Zenon, <1>4 DEF KafkaInv
  <2>2. 0 < StartAt
    BY <1>1
  <2> QED
    BY Zenon, <1>3, <1>7, <2>1, <2>2 DEF Behind
<1> QED
  BY Zenon, <1>3, <1>4, <1>5, <1>6, <1>8, PodMoves

\* A settled record joins those that have passed, and the pod moves past it.
LEMMA HandleSettledStep == ASSUME KafkaInv, NEW p \in Pod, HandleSettled(p) PROVE KafkaInv'
<1>1. member[p] \in Member /\ member[p].at \in Nat
  BY Zenon, PodSteps DEF Member
<1>2. member[p].at + 1 \in Nat /\ member[p].at < member[p].at + 1
  BY <1>1
<1>3. PICK r : r = [member[p] EXCEPT !.pc = "claim", !.marked = member[p].at, !.at = member[p].at + 1]
  BY Zenon
<1>4. r \in Member /\ r.at = member[p].at + 1 /\ r.marked = member[p].at
  BY Zenon, <1>1, <1>2, <1>3 DEF Member, MemberPC
<1>5. member' = [member EXCEPT ![p] = r]
  BY Zenon, <1>3 DEF HandleSettled
<1>6. Passed' = Passed \cup {member[p].at} /\ log' \in Nat /\ group' \in Group /\ group' = group
  BY Zenon DEF HandleSettled, Passed, KafkaInv
<1>7. \A o \in Nat : o < member[p].at + 1 => o < member[p].at \/ o = member[p].at
  BY <1>1
<1>8. \A o \in Nat : 1 <= o /\ o < member[p].at => o \in Passed
  BY Zenon DEF HandleSettled, KafkaInv, Behind, InSession
<1>9. Behind(p)'
  <2>1. member'[p] = r
    BY Zenon, <1>5 DEF KafkaInv
  <2> QED
    BY Zenon, <1>2, <1>4, <1>6, <1>7, <1>8, <2>1 DEF Behind
<1> QED
  BY Zenon, <1>4, <1>5, <1>6, <1>9, PodMoves

\* The session commits on its way out.
LEMMA SessionEndsStep == ASSUME KafkaInv, NEW p \in Pod, SessionEnds(p) PROVE KafkaInv'
<1>1. member[p] \in Member /\ 0 \in Nat /\ group \in Group
  BY PodSteps DEF KafkaInv
<1>2. InSession(p)
  BY Zenon DEF SessionEnds, InSession
<1>3. PICK r \in Member : r.pc \in {"returned", "join"} /\ member' = [member EXCEPT ![p] = r]
  <2>1. PICK c \in {"returned", "join"} : c = IF member[p].ctx THEN "returned" ELSE "join"
    BY Zenon
  <2>2. PICK g \in Nat : g = IF member[p].revoked THEN member[p].gen ELSE 0
    BY Zenon, <1>1 DEF Member
  <2>3. PICK r : r = [member[p] EXCEPT !.pc = c, !.gen = g, !.at = 0, !.marked = 0]
    BY Zenon
  <2>4. r \in Member /\ r.pc = c
    BY Zenon, <1>1, <2>1, <2>3 DEF Member, MemberPC
  <2>5. member' = [member EXCEPT ![p] = r]
    BY Zenon, <2>1, <2>2, <2>3 DEF SessionEnds
  <2> QED
    BY Zenon, <2>4, <2>5
<1>4. Commit(p) \in Group /\ \A o \in Nat : 1 <= o /\ o <= Commit(p).committed => o \in Passed
  BY Zenon, <1>2, CommitPassed
<1>5. PICK w \in Pod \cup {None} : group' = [Commit(p) EXCEPT !.owner = w]
  <2>1. Commit(p).owner \in Pod \cup {None}
    BY Zenon, <1>4 DEF Group
  <2> QED
    BY Zenon, <2>1 DEF SessionEnds
<1>6. group' \in Group /\ group'.committed = Commit(p).committed
  BY Zenon, <1>4, <1>5 DEF Group
<1>7. Passed' = Passed /\ log' \in Nat
  BY Zenon DEF SessionEnds, Passed, KafkaInv
<1>8. Committed'
  BY Zenon, <1>4, <1>6, <1>7 DEF Committed
<1> QED
  BY Zenon, <1>3, <1>6, <1>7, <1>8, PodMoves

\* A generation begins: whoever is in a session is told, and stays where it is.
LEMMA GenerationStep ==
    ASSUME KafkaInv, NEW crashed \in SUBSET Pod, UNCHANGED <<log, settled, skipped>>,
           group' = [group EXCEPT !.gen = @ + 1, !.owner = None],
           member' = [q \in Pod |-> IF q \in crashed THEN Idle
                                    ELSE [member[q] EXCEPT !.revoked = @ \/ InSession(q)]]
    PROVE  KafkaInv'
<1>1. group \in Group /\ group.gen \in Nat
  BY Zenon DEF KafkaInv, Group
<1>2. group.gen + 1 \in Nat
  BY <1>1
<1>3. group' \in Group /\ group'.committed = group.committed
  BY Zenon, <1>1, <1>2 DEF Group
<1>4. Idle \in Member /\ Idle.pc = "group"
  <2>1. 0 \in Nat
    OBVIOUS
  <2> QED
    BY Zenon, <2>1 DEF Idle, Member, MemberPC
<1>5. ASSUME NEW q \in Pod
      PROVE  /\ member'[q] \in Member
             /\ InSession(q)' => InSession(q) /\ member'[q].at = member[q].at /\ member'[q].marked = member[q].marked
  <2>1. CASE q \in crashed
    BY <1>4, <2>1 DEF InSession
  <2>2. CASE q \notin crashed
    <3>1. PICK b \in BOOLEAN : member'[q] = [member[q] EXCEPT !.revoked = b]
      <4>1. (member[q].revoked \/ InSession(q)) \in BOOLEAN
        BY Zenon
      <4> QED
        BY Zenon, <2>2, <4>1
    <3>2. member[q] \in Member
      BY Zenon DEF KafkaInv
    <3>3. /\ member'[q] \in Member /\ member'[q].pc = member[q].pc
          /\ member'[q].at = member[q].at /\ member'[q].marked = member[q].marked
      BY Zenon, <3>1, <3>2 DEF Member
    <3> QED
      BY Zenon, <3>3 DEF InSession
  <2> QED
    BY Zenon, <2>1, <2>2
<1>6. member' \in [Pod -> Member]
  BY Zenon, <1>5
<1>7. Passed \subseteq Passed' /\ log' \in Nat
  BY Zenon DEF Passed, KafkaInv
<1> QED
  BY Zenon, <1>3, <1>5, <1>6, <1>7, MembersKeepPlace

\* Stopping a consumer, pausing and resuming it leave it where it is.
LEMMA FlagsStep ==
    ASSUME KafkaInv, NEW p \in Pod, ConsumerStops(p) \/ KafkaPause(p) \/ KafkaResume(p)
    PROVE  KafkaInv'
<1>1. member[p] \in Member
  BY Zenon, PodSteps
<1>2. PICK r \in Member : /\ r.pc = member[p].pc /\ r.at = member[p].at /\ r.marked = member[p].marked
                          /\ member' = [member EXCEPT ![p] = r]
  <2>1. CASE ConsumerStops(p)
    <3>1. PICK r : r = [member[p] EXCEPT !.ctx = TRUE]
      BY Zenon
    <3> QED
      BY Zenon, <1>1, <2>1, <3>1 DEF ConsumerStops, Member
  <2>2. ASSUME NEW b \in BOOLEAN, NEW h \in BOOLEAN, member' = [member EXCEPT ![p].paused = b, ![p].held = h]
        PROVE  \E r \in Member : /\ r.pc = member[p].pc /\ r.at = member[p].at /\ r.marked = member[p].marked
                                 /\ member' = [member EXCEPT ![p] = r]
    <3>1. PICK r : r = [member[p] EXCEPT !.paused = b, !.held = h]
      BY Zenon
    <3>2. r \in Member /\ r.pc = member[p].pc /\ r.at = member[p].at /\ r.marked = member[p].marked
      BY Zenon, <1>1, <3>1 DEF Member
    <3>3. member' = [member EXCEPT ![p] = r]
      BY Zenon, <2>2, <3>1
    <3> QED
      BY Zenon, <3>2, <3>3
  <2>3. InSession(p) \in BOOLEAN
    BY SMT DEF InSession
  <2> QED
    BY Zenon, <2>1, <2>2, <2>3 DEF KafkaPause, KafkaResume
<1>3. /\ log' \in Nat /\ group' \in Group /\ group'.committed = group.committed /\ Passed \subseteq Passed'
  BY Zenon DEF ConsumerStops, KafkaPause, KafkaResume, KafkaInv, Passed
<1> QED
  BY Zenon, <1>2, <1>3, PodMoves DEF InSession

\* No step of a pod, of the group or of the brokers breaks the invariant.
LEMMA KafkaStep == KafkaInv /\ [KafkaNext]_kafkaVars => KafkaInv'
<1> SUFFICES ASSUME KafkaInv, [KafkaNext]_kafkaVars PROVE KafkaInv'
  OBVIOUS
<1>1. CASE Append1
  <2>1. log' \in Nat
    BY <1>1 DEF Append1, KafkaInv
  <2> QED
    BY Zenon, <1>1, <2>1, MembersKeepPlace DEF Append1, Passed, KafkaInv, InSession
<1>2. CASE Rebalance
  <2>1. /\ UNCHANGED <<log, settled, skipped>> /\ group' = [group EXCEPT !.gen = @ + 1, !.owner = None]
        /\ member' = [q \in Pod |-> IF q \in {} THEN Idle ELSE [member[q] EXCEPT !.revoked = @ \/ InSession(q)]]
    BY Zenon, <1>2 DEF Rebalance
  <2>2. {} \in SUBSET Pod
    OBVIOUS
  <2> QED
    BY Zenon, <2>1, <2>2, GenerationStep
<1>3. ASSUME NEW p \in Pod, PodCrash(p) PROVE KafkaInv'
  <2>1. /\ UNCHANGED <<log, settled, skipped>> /\ group' = [group EXCEPT !.gen = @ + 1, !.owner = None]
        /\ member' = [q \in Pod |-> IF q \in {p} THEN Idle ELSE [member[q] EXCEPT !.revoked = @ \/ InSession(q)]]
    BY <1>3 DEF PodCrash
  <2> QED
    BY Zenon, <2>1, GenerationStep
<1>4. ASSUME NEW p \in Pod, NewGroup(p) \/ ReturnsUnjoined(p) PROVE KafkaInv'
  BY Zenon, <1>4, PodGoes DEF NewGroup, ReturnsUnjoined, MemberPC
<1>5. ASSUME NEW p \in Pod, NextRecord(p) \/ HandleNacked(p) \/ RedeliverInPlace(p) \/ ClaimEnds(p) PROVE KafkaInv'
  <2>1. InSession(p) /\ UNCHANGED <<log, group, settled, skipped>>
    BY Zenon, <1>5 DEF NextRecord, HandleNacked, RedeliverInPlace, ClaimEnds, InSession
  <2>2. PICK c \in MemberPC : member' = [member EXCEPT ![p].pc = c]
    BY Zenon, <1>5 DEF NextRecord, HandleNacked, RedeliverInPlace, ClaimEnds, MemberPC
  <2> QED
    BY Zenon, <2>1, <2>2, PodGoes
<1>6. ASSUME NEW p \in Pod, AutoCommit(p) PROVE KafkaInv'
  <2>1. InSession(p) /\ UNCHANGED <<log, member, settled, skipped>> /\ group' = Commit(p)
    BY Zenon, <1>6 DEF AutoCommit, InSession
  <2>2. group' \in Group /\ Committed'
    BY Zenon, <2>1, CommitPassed DEF Committed, Passed
  <2> QED
    BY Zenon, <2>1, <2>2, MembersKeepPlace DEF KafkaInv, Passed, InSession
<1>7. CASE UNCHANGED kafkaVars
  BY Zenon, <1>7, MembersKeepPlace DEF kafkaVars, KafkaInv, Passed, InSession
<1> QED
  BY Zenon, <1>1, <1>2, <1>3, <1>4, <1>5, <1>6, <1>7, JoinStep, SessionEndsStep, HandleSettledStep, FlagsStep
     DEF KafkaNext

\* For any number of pods, records and rebalances: ConsumeClaim never handles a
\* record before the ones below it are settled, and no commit passes over one.
THEOREM PartitionOrdered == KafkaSpec => []PartitionInOrder
<1>1. KafkaInit => KafkaInv
  <2> SUFFICES ASSUME KafkaInit PROVE KafkaInv
    OBVIOUS
  <2>1. 0 \in Nat /\ 1 \in Nat /\ \A o \in Nat : ~(1 <= o /\ o <= 0)
    OBVIOUS
  <2>2. Idle \in Member /\ Idle.pc = "group"
    BY Zenon, <2>1 DEF Idle, Member, MemberPC
  <2>3. group \in Group /\ group.committed = 0 /\ log \in Nat
    BY Zenon, <2>1 DEF KafkaInit, Group
  <2>4. member \in [Pod -> Member] /\ \A p \in Pod : member[p].pc = "group"
    BY Zenon, <2>2 DEF KafkaInit
  <2>5. \A p \in Pod : ~InSession(p)
    BY <2>4 DEF InSession
  <2> QED
    BY Zenon, <2>1, <2>3, <2>4, <2>5 DEF KafkaInv, Committed, Behind
<1>2. KafkaInv => PartitionInOrder
  <2> SUFFICES ASSUME KafkaInv PROVE PartitionInOrder
    OBVIOUS
  <2>1. ASSUME NEW p \in Pod, member[p].pc = "handle" PROVE 1 .. member[p].at - 1 \subseteq settled \cup skipped
    <3>1. member[p].at \in Nat
      BY Zenon, PodSteps DEF Member
    <3>2. \A o \in 1 .. member[p].at - 1 : o \in Nat /\ 1 <= o /\ o < member[p].at
      BY <3>1
    <3>3. InSession(p)
      BY Zenon, <2>1 DEF InSession
    <3> QED
      BY Zenon, <3>2, <3>3 DEF KafkaInv, Behind, Passed
  <2>2. \A o \in 1 .. group.committed : o \in Nat /\ 1 <= o /\ o <= group.committed
    <3>1. group.committed \in Nat
      BY Zenon DEF KafkaInv, Group
    <3> QED
      BY <3>1
  <2>3. 1 .. group.committed \subseteq settled \cup skipped
    BY Zenon, <2>2 DEF KafkaInv, Committed, Passed
  <2> QED
    BY Zenon, <2>1, <2>3 DEF PartitionInOrder
<1> QED
  BY <1>1, <1>2, KafkaStep, PTL DEF KafkaSpec
-----------------------------------------------------------------------------
(* CloseContext of BrokerService. *)

ManagerState == {"running", "closing", "drained"}

\* What a closer holds: an answer for each manager of its copy of the list.
Answers(c) ==
    /\ closing[c].seen \in Nat /\ closing[c].seen <= Len(managers)
    /\ DOMAIN closing[c].errs = 1 .. closing[c].seen
    /\ \A i \in 1 .. closing[c].seen :
        /\ closing[c].errs[i] \in {"none", "nil", "ctx"}
        /\ closing[c].errs[i] = "nil" => managers[i] = "drained"
    /\ closing[c].pc = "nil" => \A i \in 1 .. closing[c].seen : managers[i] = "drained"

\* A drained manager stays drained, so a nil that was answered stays true.
BrokerServiceInv ==
    /\ managers \in Seq(ManagerState)
    /\ DOMAIN closing = ServiceCloser
    /\ \A c \in ServiceCloser : Answers(c)
    /\ handles.consumers = handles.owned /\ handles.owned \in Nat

\* Managers come and go from running to closing to drained; answers stay as they are.
LEMMA ManagersMove ==
    ASSUME BrokerServiceInv, managers' \in Seq(ManagerState), UNCHANGED <<closing, handles>>,
           Len(managers) <= Len(managers'),
           \A i \in 1 .. Len(managers) : managers[i] = "drained" => managers'[i] = "drained"
    PROVE  BrokerServiceInv'
<1>1. ASSUME NEW c \in ServiceCloser PROVE Answers(c)'
  <2>1. Answers(c)
    BY Zenon DEF BrokerServiceInv
  <2>2. Len(managers) \in Nat /\ Len(managers') \in Nat
    BY DEF BrokerServiceInv
  <2>3. closing[c].seen <= Len(managers')
    BY <2>1, <2>2 DEF Answers
  <2>4. \A i \in 1 .. closing[c].seen : i \in 1 .. Len(managers)
    BY <2>1, <2>2 DEF Answers
  <2> QED
    BY Zenon, <2>1, <2>3, <2>4 DEF Answers
<1> QED
  BY Zenon, <1>1 DEF BrokerServiceInv

\* One closer moves; the managers do not.
LEMMA CloserMoves ==
    ASSUME BrokerServiceInv, UNCHANGED <<managers, handles>>, NEW c \in ServiceCloser, NEW r,
           closing' = [closing EXCEPT ![c] = r], Answers(c)'
    PROVE  BrokerServiceInv'
<1>1. ASSUME NEW d \in ServiceCloser PROVE Answers(d)'
  <2>1. CASE d = c
    BY Zenon, <2>1
  <2>2. CASE d # c
    <3>1. closing'[d] = closing[d]
      BY Zenon, <2>2 DEF BrokerServiceInv
    <3> QED
      BY <3>1 DEF BrokerServiceInv, Answers
  <2> QED
    BY Zenon, <2>1, <2>2
<1>2. DOMAIN closing' = ServiceCloser
  BY Zenon DEF BrokerServiceInv
<1> QED
  BY Zenon, <1>1, <1>2 DEF BrokerServiceInv

\* No operation of the service or of its managers breaks the invariant.
LEMMA BrokerServiceStep == BrokerServiceInv /\ [BrokerServiceNext]_svcVars => BrokerServiceInv'
<1> SUFFICES ASSUME BrokerServiceInv, [BrokerServiceNext]_svcVars PROVE BrokerServiceInv'
  OBVIOUS
<1>0. /\ managers \in Seq(ManagerState) /\ DOMAIN closing = ServiceCloser
      /\ \A c \in ServiceCloser : Answers(c)
      /\ "running" \in ManagerState /\ "closing" \in ManagerState /\ "drained" \in ManagerState
  BY Zenon DEF BrokerServiceInv, ManagerState
<1>1. CASE RegisterProvider \/ OpenBroker \/ UNCHANGED svcVars
  <2>1. UNCHANGED <<managers, closing, handles>>
    BY Zenon, <1>1 DEF RegisterProvider, OpenBroker, svcVars
  <2> QED
    BY <2>1 DEF BrokerServiceInv, Answers
<1>2. ASSUME NEW d \in BOOLEAN, NewConsumer(d) PROVE BrokerServiceInv'
  <2>1. UNCHANGED <<managers, closing>>
    BY Zenon, <1>2 DEF NewConsumer
  <2>2. handles'.consumers = handles'.owned /\ handles'.owned \in Nat
    BY <1>2 DEF NewConsumer, BrokerServiceInv
  <2> QED
    BY Zenon, <2>1, <2>2 DEF BrokerServiceInv, Answers
<1>3. CASE NewConsumerManager
  <2>1. managers' = Append(managers, "running")
    BY Zenon, <1>3 DEF NewConsumerManager
  <2>2. /\ managers' \in Seq(ManagerState) /\ Len(managers) <= Len(managers')
        /\ \A i \in 1 .. Len(managers) : managers'[i] = managers[i]
    BY <1>0, <2>1
  <2> QED
    BY Zenon, <1>3, <2>2, ManagersMove DEF NewConsumerManager
<1>4. ASSUME NEW i \in DOMAIN managers, NEW m \in {"closing", "drained"}, managers[i] # "drained",
             managers' = [managers EXCEPT ![i] = m], UNCHANGED <<closing, handles>>
      PROVE  BrokerServiceInv'
  <2>1. m \in ManagerState
    BY Zenon DEF ManagerState
  <2>2. /\ managers' \in Seq(ManagerState) /\ Len(managers) <= Len(managers')
        /\ \A j \in 1 .. Len(managers) : managers[j] = "drained" => managers'[j] = "drained"
    BY <1>0, <1>4, <2>1
  <2> QED
    BY Zenon, <1>4, <2>2, ManagersMove
<1>5. ASSUME NEW c \in ServiceCloser, CloseSnapshot(c) PROVE BrokerServiceInv'
  <2>1. PICK r : /\ r = [pc |-> "wait", seen |-> Len(managers), errs |-> [i \in DOMAIN managers |-> "none"]]
                 /\ closing' = [closing EXCEPT ![c] = r]
    BY Zenon, <1>5 DEF CloseSnapshot
  <2>2. /\ closing'[c].pc = "wait" /\ closing'[c].seen = Len(managers) /\ managers' = managers
        /\ closing'[c].errs = [i \in DOMAIN managers |-> "none"]
    <3>1. closing'[c] = r
      BY Zenon, <1>0, <2>1
    <3>2. managers' = managers
      BY Zenon, <1>5 DEF CloseSnapshot
    <3>3. r.pc = "wait" /\ r.seen = Len(managers)
      BY Zenon, <2>1
    <3>4. r.errs = [i \in DOMAIN managers |-> "none"]
      BY Zenon, <2>1
    <3> QED
      BY Zenon, <3>1, <3>2, <3>3, <3>4
  <2>3. Len(managers) \in Nat /\ Len(managers) <= Len(managers) /\ DOMAIN managers = 1 .. Len(managers)
    BY <1>0
  <2>4. Answers(c)'
    BY Zenon, <2>2, <2>3 DEF Answers
  <2> QED
    BY Zenon, <1>5, <2>1, <2>4, CloserMoves DEF CloseSnapshot
<1>6. ASSUME NEW c \in ServiceCloser, NEW i \in DOMAIN managers, ManagerAnswers(c, i) PROVE BrokerServiceInv'
  <2>1. PICK a \in {"nil", "ctx"} : /\ a = "nil" => managers[i] = "drained"
                                    /\ closing' = [closing EXCEPT ![c].errs[i] = a]
    BY Zenon, <1>6 DEF ManagerAnswers
  <2>2. PICK r : r = [closing[c] EXCEPT !.errs[i] = a]
    BY Zenon
  <2>3. closing' = [closing EXCEPT ![c] = r]
    BY Zenon, <2>1, <2>2
  <2>4. closing[c].pc = "wait" /\ i \in DOMAIN closing[c].errs /\ UNCHANGED <<managers, handles>> /\ Answers(c)
    BY Zenon, <1>0, <1>6 DEF ManagerAnswers
  <2>5. /\ closing'[c].pc = "wait" /\ closing'[c].seen = closing[c].seen
        /\ closing'[c].errs = [closing[c].errs EXCEPT ![i] = a]
    BY <1>0, <2>2, <2>3, <2>4
  <2>6. Answers(c)'
    <3>1. /\ DOMAIN closing'[c].errs = 1 .. closing[c].seen
          /\ \A j \in 1 .. closing[c].seen : closing'[c].errs[j] = IF j = i THEN a ELSE closing[c].errs[j]
      BY Zenon, <2>4, <2>5 DEF Answers
    <3>2. /\ \A j \in 1 .. closing[c].seen : closing'[c].errs[j] \in {"none", "nil", "ctx"}
          /\ \A j \in 1 .. closing[c].seen : closing'[c].errs[j] = "nil" => managers[j] = "drained"
      BY Zenon, <2>1, <2>4, <3>1 DEF Answers
    <3> QED
      BY <2>4, <2>5, <3>1, <3>2 DEF Answers
  <2> QED
    BY Zenon, <2>3, <2>4, <2>6, CloserMoves
<1>7. ASSUME NEW c \in ServiceCloser, ServiceReturns(c) PROVE BrokerServiceInv'
  <2>1. PICK a \in {"nil", "error"} :
            /\ a = "nil" => ~ \E i \in DOMAIN closing[c].errs : closing[c].errs[i] = "ctx"
            /\ closing' = [closing EXCEPT ![c].pc = a]
    BY Zenon, <1>7 DEF ServiceReturns
  <2>2. PICK r : r = [closing[c] EXCEPT !.pc = a]
    BY Zenon
  <2>3. closing' = [closing EXCEPT ![c] = r]
    BY Zenon, <2>1, <2>2
  <2>4. /\ closing[c].pc = "wait" /\ UNCHANGED <<managers, handles>> /\ Answers(c)
        /\ \A i \in DOMAIN closing[c].errs : closing[c].errs[i] # "none"
    BY Zenon, <1>0, <1>7 DEF ServiceReturns
  <2>5. closing'[c].seen = closing[c].seen /\ closing'[c].errs = closing[c].errs
    BY <1>0, <2>2, <2>3
  <2>6. closing'[c].pc = "nil" => \A i \in 1 .. closing[c].seen : managers[i] = "drained"
    BY <1>0, <2>1, <2>2, <2>3, <2>4 DEF Answers
  <2>7. Answers(c)'
    BY Zenon, <2>4, <2>5, <2>6 DEF Answers
  <2> QED
    BY Zenon, <2>3, <2>4, <2>7, CloserMoves
<1>8. ASSUME NEW c \in ServiceCloser, NEW i \in DOMAIN managers, ManagerCloses(c, i) PROVE BrokerServiceInv'
  BY Zenon, <1>4, <1>8 DEF ManagerCloses
<1>9. ASSUME NEW i \in DOMAIN managers, ManagerDrains(i) PROVE BrokerServiceInv'
  BY Zenon, <1>4, <1>9 DEF ManagerDrains
<1> QED
  BY Zenon, <1>1, <1>2, <1>3, <1>5, <1>6, <1>7, <1>8, <1>9 DEF BrokerServiceNext

\* However many managers there are and goroutines that call CloseContext while
\* others are created, a nil means that the managers listed before the call are
\* drained, and nothing the provider opened is left without an owner.
THEOREM ServiceDrains == BrokerServiceSpec => []CloseDrains
<1>1. BrokerServiceInit => BrokerServiceInv
  <2> SUFFICES ASSUME BrokerServiceInit PROVE BrokerServiceInv
    OBVIOUS
  <2>1. /\ managers \in Seq(ManagerState) /\ Len(managers) = 0
        /\ handles.consumers = handles.owned /\ handles.owned \in Nat
    BY DEF BrokerServiceInit
  <2>2. \A c \in ServiceCloser : closing[c].pc = "idle" /\ closing[c].seen = 0 /\ closing[c].errs = <<>>
    BY Zenon DEF BrokerServiceInit
  <2>3. \A c \in ServiceCloser : Answers(c)
    BY <2>1, <2>2 DEF Answers
  <2>4. DOMAIN closing = ServiceCloser
    BY Zenon DEF BrokerServiceInit
  <2> QED
    BY Zenon, <2>1, <2>3, <2>4 DEF BrokerServiceInv
<1>2. BrokerServiceInv => CloseDrains
  BY Zenon DEF BrokerServiceInv, Answers, CloseDrains
<1> QED
  BY <1>1, <1>2, BrokerServiceStep, PTL DEF BrokerServiceSpec
-----------------------------------------------------------------------------
(* The supervised consumers of a manager.  The entries that the starts in    *)
(* progress still have to start are disjoint intervals below m.started, none *)
(* of them supervised yet; so the consumer a start creates is the only one   *)
(* of its entry.                                                             *)

LEMMA ConstantTypes ==
    /\ MaxEntries \in Nat /\ MaxFailures \in Nat /\ MaxTime \in Nat /\ MaxTime > 0
    /\ Topicless \subseteq Entry
  BY ManagerAssumption
-----------------------------------------------------------------------------
(* Types.                                                                  *)

\* A start in progress has an entry to start.
Busy(s) == at[s] # "idle" => next[s] <= last[s] /\ last[s] <= started

\* The types of the state that up, down and stop keep.
HealthTypes ==
    /\ running \in [Entry -> BOOLEAN]
    /\ downSince \in [Entry -> 0..MaxTime]
    /\ failed \in [Entry -> SUBSET (1..MaxTime)]

StartTypes ==
    /\ at \in [Starter -> {"idle", "create", "list", "discard"}]
    /\ next \in [Starter -> 1..(MaxEntries + 1)]
    /\ last \in [Starter -> 0..MaxEntries]
    /\ got \in [Starter -> BOOLEAN]

LEMMA InitType == Init => TypeOK
  <1>1. /\ 0 \in 0..MaxEntries /\ 0 \in 0..0 /\ 1 \in 1..(MaxEntries + 1) /\ 0 \in Int
        /\ 1 \in 1..MaxTime /\ 0 \in 0..MaxTime /\ 0 \in 0..MaxFailures
    BY ConstantTypes
  <1>2. {} \in SUBSET (1..MaxTime)
    OBVIOUS
  <1> SUFFICES ASSUME Init PROVE TypeOK
    OBVIOUS
  <1>3. StartTypes
    BY Zenon, <1>1 DEF Init, StartTypes
  <1>4. HealthTypes /\ began \in [Entry -> 0..MaxTime] /\ longRun \in [Entry -> 0..MaxTime]
    BY Zenon, <1>1, <1>2 DEF Init, HealthTypes
  <1>5. /\ sup \in [Entry -> {"off", "sleep", "create", "up", "consume", "close", "ended"}]
        /\ open \in [Entry -> Int]
        /\ closer \in [Closer -> {"idle", "cancel", "wait", "nil", "err"}]
    BY Zenon, <1>1 DEF Init
  <1>6. /\ registered \in 0..MaxEntries /\ started \in 0..registered /\ now \in 1..MaxTime
        /\ failures \in 0..MaxFailures
    BY Zenon, <1>1 DEF Init
  <1>7. closed \in BOOLEAN /\ cancelled \in BOOLEAN /\ draining \in BOOLEAN /\ done \in BOOLEAN
    BY Zenon DEF Init
  <1> QED BY Zenon, <1>3, <1>4, <1>5, <1>6, <1>7 DEF TypeOK, StartTypes, HealthTypes

LEMMA HealthStep ==
    ASSUME TypeOK, NEW e \in Entry, NEW b, Down(e, b) \/ Up(e) \/ StopState(e)
    PROVE  HealthTypes'
  <1>1. HealthTypes /\ now \in 1..MaxTime /\ now \in 0..MaxTime /\ 0 \in 0..MaxTime
    BY ConstantTypes DEF TypeOK, HealthTypes
  <1>2. running' \in [Entry -> BOOLEAN]
    BY Zenon, <1>1 DEF Down, Up, StopState, HealthTypes
  <1>3. downSince' \in [Entry -> 0..MaxTime]
    <2>1. CASE Up(e)
      BY Zenon, <1>1, <2>1 DEF Up, HealthTypes
    <2>2. CASE StopState(e)
      BY Zenon, <1>1, <2>2 DEF StopState, HealthTypes
    <2>3. CASE Down(e, b)
      <3>1. PICK d \in 0..MaxTime : downSince' = [downSince EXCEPT ![e] = d]
        BY Zenon, <1>1, <2>3 DEF Down, HealthTypes
      <3> QED BY Zenon, <1>1, <3>1 DEF HealthTypes
    <2> QED BY Zenon, <2>1, <2>2, <2>3
  <1>4. failed' \in [Entry -> SUBSET (1..MaxTime)]
    <2>1. failed[e] \cup {now} \in SUBSET (1..MaxTime) /\ {} \in SUBSET (1..MaxTime)
      BY Zenon, <1>1 DEF HealthTypes
    <2> QED BY Zenon, <1>1, <2>1 DEF Down, Up, StopState, HealthTypes
  <1> QED BY Zenon, <1>2, <1>3, <1>4 DEF HealthTypes

\* The entry that a start works on.
LEMMA CurrentEntry ==
    ASSUME TypeOK, NEW s \in Starter, at[s] # "idle", Busy(s)
    PROVE  /\ next[s] \in Entry /\ next[s] + 1 \in 1..(MaxEntries + 1)
           /\ next[s] \in Nat /\ last[s] \in Nat /\ started \in Nat /\ next[s] <= last[s]
           /\ last[s] <= started
  <1>1. next[s] \in 1..(MaxEntries + 1) /\ last[s] \in 0..MaxEntries /\ started \in 0..registered
        /\ registered \in 0..MaxEntries
    BY Zenon DEF TypeOK
  <1> QED BY <1>1, ConstantTypes DEF Busy, Entry

LEMMA NextEntryType ==
    ASSUME TypeOK, NEW s \in Starter, at[s] # "idle", Busy(s), NextEntry(s)
    PROVE  StartTypes'
  <1>1. StartTypes /\ next[s] + 1 \in 1..(MaxEntries + 1)
    BY Zenon, CurrentEntry DEF TypeOK, StartTypes
  <1> QED BY Zenon, <1>1 DEF NextEntry, StartTypes

\* Adding to, or taking from, the open consumers of an entry.
LEMMA OpenType ==
    ASSUME TypeOK, NEW e \in Entry,
           open' = [open EXCEPT ![e] = @ + 1] \/ open' = [open EXCEPT ![e] = @ - 1]
    PROVE  open' \in [Entry -> Int]
  BY DEF TypeOK

LEMMA MoreFailures ==
    ASSUME TypeOK, failures < MaxFailures, failures' = failures + 1
    PROVE  failures' \in 0..MaxFailures
  BY ConstantTypes DEF TypeOK

LEMMA StartType ==
    ASSUME TypeOK, NEW s \in Starter, Busy(s), Start(s)
    PROVE  TypeOK'
  <1>1. CASE StartBegins(s)
    <2>1. started + 1 \in 1..(MaxEntries + 1) /\ registered \in 0..registered
      BY ConstantTypes DEF TypeOK
    <2>2. StartTypes'
      BY Zenon, <1>1, <2>1 DEF StartBegins, TypeOK, StartTypes
    <2> QED BY Zenon, <1>1, <2>1, <2>2 DEF StartBegins, TypeOK, StartTypes, shutdown, healthVars
  <1>2. CASE SkipsTopicless(s)
    <2>1. StartTypes'
      BY Zenon, <1>2, NextEntryType DEF SkipsTopicless
    <2> QED BY Zenon, <1>2, <2>1 DEF SkipsTopicless, TypeOK, StartTypes, entries, shutdown, healthVars
  <1>3. CASE Creates(s)
    <2>1. open' \in [Entry -> Int]
      BY Zenon, <1>3, CurrentEntry, OpenType DEF Creates
    <2>2. StartTypes'
      BY Zenon, <1>3 DEF Creates, TypeOK, StartTypes
    <2> QED BY Zenon, <1>3, <2>1, <2>2 DEF Creates, TypeOK, StartTypes, entries, shutdown, healthVars
  <1>4. CASE CreateFails(s)
    <2>1. HealthTypes'
      BY Zenon, <1>4, CurrentEntry, HealthStep DEF CreateFails
    <2>2. StartTypes'
      BY Zenon, <1>4 DEF CreateFails, TypeOK, StartTypes
    <2>3. failures' \in 0..MaxFailures
      BY Zenon, <1>4, MoreFailures DEF CreateFails
    <2> QED BY Zenon, <1>4, <2>1, <2>2, <2>3 DEF CreateFails, TypeOK, StartTypes, HealthTypes, entries, shutdown
  <1>5. CASE Supervises(s)
    <2>1. StartTypes'
      BY Zenon, <1>5, NextEntryType DEF Supervises
    <2>2. sup' \in [Entry -> {"off", "sleep", "create", "up", "consume", "close", "ended"}]
      BY Zenon, <1>5 DEF Supervises, TypeOK
    <2> QED BY Zenon, <1>5, <2>1, <2>2 DEF Supervises, TypeOK, StartTypes, entries, shutdown, healthVars
  <1>6. CASE TooLate(s)
    <2>1. StartTypes'
      <3>1. CASE got[s]
        BY Zenon, <1>6, <3>1 DEF TooLate, TypeOK, StartTypes
      <3>2. CASE ~got[s]
        BY Zenon, <1>6, <3>2, NextEntryType DEF TooLate
      <3> QED BY Zenon, <3>1, <3>2
    <2> QED BY Zenon, <1>6, <2>1 DEF TooLate, TypeOK, StartTypes, entries, shutdown, healthVars
  <1>7. CASE Discards(s)
    <2>1. StartTypes' /\ open' \in [Entry -> Int]
      BY Zenon, <1>7, CurrentEntry, NextEntryType, OpenType DEF Discards
    <2> QED BY Zenon, <1>7, <2>1 DEF Discards, TypeOK, StartTypes, entries, shutdown, healthVars
  <1> QED BY Zenon, <1>1, <1>2, <1>3, <1>4, <1>5, <1>6, <1>7 DEF Start

LEMMA SuperviseType ==
    ASSUME TypeOK, NEW e \in Entry, Supervise(e)
    PROVE  TypeOK'
  <1> USE DEF TypeOK, HealthTypes, entries, shutdown, startVars, healthVars
  <1>1. now \in 0..MaxTime /\ 0 \in 0..MaxTime
    BY ConstantTypes
  <1>2. CASE SleepOver(e) \/ RunEnds(e)
    BY Zenon, <1>2 DEF SleepOver, RunEnds
  <1>3. CASE SleepCut(e)
    <2>1. HealthTypes'
      BY Zenon, <1>3, HealthStep DEF SleepCut
    <2> QED BY Zenon, <1>3, <2>1 DEF SleepCut
  <1>4. CASE Recreates(e)
    <2>1. open' \in [Entry -> Int]
      BY Zenon, <1>4, OpenType DEF Recreates
    <2> QED BY Zenon, <1>4, <2>1 DEF Recreates
  <1>5. CASE RecreateFails(e)
    <2>1. HealthTypes' /\ failures' \in 0..MaxFailures
      BY Zenon, <1>5, HealthStep, MoreFailures DEF RecreateFails
    <2> QED BY Zenon, <1>5, <2>1 DEF RecreateFails
  <1>6. CASE Consumes(e)
    <2>1. HealthTypes'
      BY Zenon, <1>6, HealthStep DEF Consumes
    <2> QED BY Zenon, <1>1, <1>6, <2>1 DEF Consumes
  <1>7. CASE ConsumeFails(e)
    <2>1. failures' \in 0..MaxFailures
      BY Zenon, <1>7, MoreFailures DEF ConsumeFails
    <2> QED BY Zenon, <1>7, <2>1 DEF ConsumeFails
  <1>8. CASE Closes(e)
    <2>1. HealthTypes' /\ longRun' \in [Entry -> 0..MaxTime]
      <3>1. CASE cancelled
        BY Zenon, <1>8, <3>1, HealthStep DEF Closes
      <3>2. CASE ~cancelled
        <4>1. Down(e, RanLong(e))
          BY Zenon, <1>8, <3>2 DEF Closes
        <4>2. HealthTypes'
          BY Zenon, <4>1, HealthStep
        <4>3. PICK t \in 0..MaxTime : longRun' = [longRun EXCEPT ![e] = t]
          BY Zenon, <1>1, <1>8, <3>2 DEF Closes
        <4> QED BY Zenon, <4>2, <4>3
      <3> QED BY Zenon, <3>1, <3>2
    <2>2. open' \in [Entry -> Int]
      BY Zenon, <1>8, OpenType DEF Closes
    <2>3. began' \in [Entry -> 0..MaxTime]
      BY Zenon, <1>1, <1>8 DEF Closes
    <2>4. sup' \in [Entry -> {"off", "sleep", "create", "up", "consume", "close", "ended"}]
      <3>1. PICK p \in {"sleep", "ended"} : sup' = [sup EXCEPT ![e] = p]
        BY Zenon, <1>8 DEF Closes
      <3> QED BY Zenon, <3>1
    <2>5. UNCHANGED <<entries, shutdown, startVars, now, failures>>
      BY Zenon, <1>8 DEF Closes
    <2> QED BY Zenon, <2>1, <2>2, <2>3, <2>4, <2>5
  <1> QED BY Zenon, <1>2, <1>3, <1>4, <1>5, <1>6, <1>7, <1>8 DEF Supervise

LEMMA OtherType ==
    ASSUME TypeOK, Register \/ Drained \/ Tick \/ (\E c \in Closer : Close(c)) \/ UNCHANGED vars
    PROVE  TypeOK'
  <1> USE DEF TypeOK, entries, shutdown, startVars, healthVars
  <1>1. CASE Register
    <2>1. registered' \in 0..MaxEntries /\ started \in 0..registered'
      BY <1>1, ConstantTypes DEF Register
    <2> QED BY Zenon, <1>1, <2>1 DEF Register
  <1>2. CASE Drained
    BY Zenon, <1>2 DEF Drained
  <1>3. CASE Tick
    <2>1. now' \in 1..MaxTime
      BY <1>3, ConstantTypes DEF Tick
    <2> QED BY ZenonT(40), <1>3, <2>1 DEF Tick
  <1>4. ASSUME NEW c \in Closer, Close(c) PROVE TypeOK'
    BY Zenon, <1>4 DEF Close, CloseBegins, Cancels, CloseReturns, CloseTimesOut
  <1>5. CASE UNCHANGED vars
    BY Zenon, <1>5 DEF vars
  <1> QED BY Zenon, <1>1, <1>2, <1>3, <1>4, <1>5
-----------------------------------------------------------------------------
(* The entries of the starts in progress.                                  *)

StarterOK(s) ==
    /\ Busy(s)
    /\ at[s] \in {"idle", "create"} => ~got[s]
    /\ at[s] = "discard" => got[s]

Disjoint ==
    \A s, u \in Starter :
        s # u /\ at[s] # "idle" /\ at[u] # "idle" => last[s] < next[u] \/ last[u] < next[s]

\* A supervised entry belongs to no start any more.
Fresh ==
    \A e \in Entry :
        sup[e] # "off" =>
            /\ e <= started
            /\ \A s \in Starter : at[s] # "idle" => ~(next[s] <= e /\ e <= last[s])

Claims == Disjoint /\ Fresh /\ \A s \in Starter : StarterOK(s)

SameStarter(u) == at'[u] = at[u] /\ next'[u] = next[u] /\ last'[u] = last[u] /\ got'[u] = got[u]

\* The three ways in which a step of Start moves on.
Begins(s) ==
    /\ at[s] = "idle" /\ at'[s] = "create" /\ got'[s] = got[s]
    /\ next'[s] = started + 1 /\ last'[s] = registered /\ started < registered
    /\ started' = registered
    /\ sup' = sup

Stays(s) ==
    /\ at[s] # "idle" /\ at'[s] \in {"list", "discard"}
    /\ at'[s] = "discard" => got'[s]
    /\ next'[s] = next[s] /\ last'[s] = last[s]
    /\ started' = started
    /\ sup' = sup

Advances(s) ==
    /\ at[s] # "idle"
    /\ at'[s] = "create" \/ at'[s] = "idle"
    /\ at'[s] = "create" => next[s] < last[s]
    /\ ~got'[s]
    /\ next'[s] = next[s] + 1 /\ last'[s] = last[s]
    /\ started' = started
    /\ \A e \in Entry : e # next[s] => sup'[e] = sup[e]

LEMMA StartMoves ==
    ASSUME TypeOK, NEW s \in Starter, Start(s)
    PROVE  /\ Begins(s) \/ Stays(s) \/ Advances(s)
           /\ \A u \in Starter : u # s => SameStarter(u)
  <1> USE DEF TypeOK, SameStarter, entries
  <1>1. CASE StartBegins(s)
    BY Zenon, <1>1 DEF StartBegins, Begins
  <1>2. CASE Creates(s) \/ CreateFails(s)
    BY Zenon, <1>2 DEF Creates, CreateFails, Stays
  <1>3. CASE TooLate(s) /\ got[s]
    BY Zenon, <1>3 DEF TooLate, Stays
  <1>4. ASSUME NextEntry(s), at[s] # "idle", started' = started,
               \A e \in Entry : e # next[s] => sup'[e] = sup[e]
        PROVE  Advances(s) /\ \A u \in Starter : u # s => SameStarter(u)
    BY Zenon, <1>4 DEF NextEntry, Advances
  <1>5. CASE SkipsTopicless(s) \/ (TooLate(s) /\ ~got[s]) \/ Discards(s)
    BY Zenon, <1>4, <1>5 DEF SkipsTopicless, TooLate, Discards
  <1>6. CASE Supervises(s)
    BY Zenon, <1>4, <1>6 DEF Supervises
  <1> QED BY Zenon, <1>1, <1>2, <1>3, <1>5, <1>6 DEF Start

LEMMA Numbers ==
    ASSUME TypeOK
    PROVE  /\ \A u \in Starter : next[u] \in Int /\ last[u] \in Int
           /\ started \in Int /\ registered \in Int /\ started <= registered
           /\ \A e \in Entry : e \in Int
  <1>1. registered \in 0..MaxEntries /\ started \in 0..registered
    BY Zenon DEF TypeOK
  <1>2. ASSUME NEW u \in Starter
        PROVE  next[u] \in 1..(MaxEntries + 1) /\ last[u] \in 0..MaxEntries
    BY Zenon DEF TypeOK
  <1>3. ASSUME NEW u \in Starter PROVE next[u] \in Int /\ last[u] \in Int
    BY <1>2, ConstantTypes
  <1>4. /\ started \in Int /\ registered \in Int /\ started <= registered
        /\ \A e \in Entry : e \in Int
    BY <1>1, ConstantTypes DEF Entry
  <1> QED BY Zenon, <1>3, <1>4

\* A start takes entries above m.started and only walks forward in them, so the
\* intervals stay disjoint and below m.started.
LEMMA StartClaims ==
    ASSUME TypeOK, Claims, NEW s \in Starter, Start(s)
    PROVE  Claims'
  <1>1. /\ Begins(s) \/ Stays(s) \/ Advances(s)
        /\ \A u \in Starter : u # s => SameStarter(u)
    BY Zenon, StartMoves
  <1>2. started' \in Int /\ started <= started'
    <2>1. \A a \in Int : a <= a
      OBVIOUS
    <2> QED BY Zenon, <1>1, <2>1, Numbers DEF Begins, Stays, Advances
  <1>3. ASSUME NEW u \in Starter, u # s PROVE StarterOK(u)'
    <2>1. StarterOK(u) /\ SameStarter(u)
      BY Zenon, <1>1, <1>3 DEF Claims
    <2>2. at[u] # "idle" => last[u] <= started'
      <3>1. \A a, b, d \in Int : a <= b /\ b <= d => a <= d
        OBVIOUS
      <3>2. at[u] # "idle" => last[u] <= started
        BY Zenon, <2>1 DEF StarterOK, Busy
      <3> QED BY Zenon, <1>2, <3>1, <3>2, Numbers
    <2> QED BY Zenon, <2>1, <2>2 DEF StarterOK, Busy, SameStarter
  <1>4. at[s] # "idle" => next[s] <= last[s] /\ last[s] <= started
    BY Zenon DEF Claims, StarterOK, Busy
  <1>5. StarterOK(s)'
    <2>1. CASE Begins(s)
      <3>1. next'[s] <= last'[s] /\ last'[s] <= started'
        <4>1. \A a, b \in Int : (a < b => a + 1 <= b) /\ b <= b
          OBVIOUS
        <4> QED BY Zenon, <2>1, <4>1, Numbers DEF Begins
      <3>2. ~got'[s]
        BY Zenon, <2>1 DEF Begins, Claims, StarterOK
      <3> QED BY Zenon, <2>1, <3>1, <3>2 DEF Begins, StarterOK, Busy
    <2>2. CASE Stays(s)
      BY Zenon, <1>4, <2>2 DEF Stays, StarterOK, Busy
    <2>3. CASE Advances(s)
      <3>1. at'[s] # "idle" => next'[s] <= last'[s] /\ last'[s] <= started'
        BY <1>4, <2>3, Numbers DEF Advances
      <3> QED BY Zenon, <2>3, <3>1 DEF Advances, StarterOK, Busy
    <2> QED BY Zenon, <1>1, <2>1, <2>2, <2>3
  <1>6. ASSUME NEW u \in Starter, u # s, at'[s] # "idle", at'[u] # "idle"
        PROVE  last'[s] < next'[u] \/ last'[u] < next'[s]
    <2>1. at[u] # "idle" /\ next'[u] = next[u] /\ last'[u] = last[u]
      BY Zenon, <1>1, <1>6 DEF SameStarter
    <2>2. last[u] <= started
      BY Zenon, <2>1 DEF Claims, StarterOK, Busy
    <2>3. at[s] # "idle" => last[s] < next[u] \/ last[u] < next[s]
      BY Zenon, <1>6, <2>1 DEF Claims, Disjoint
    <2> QED BY <1>1, <2>1, <2>2, <2>3, Numbers DEF Begins, Stays, Advances
  <1>7. Disjoint'
    <2> SUFFICES ASSUME NEW a \in Starter, NEW b \in Starter, a # b,
                        at'[a] # "idle", at'[b] # "idle"
                 PROVE  last'[a] < next'[b] \/ last'[b] < next'[a]
      BY Zenon DEF Disjoint
    <2>1. CASE a = s \/ b = s
      BY Zenon, <1>6, <2>1
    <2>2. CASE a # s /\ b # s
      BY Zenon, <1>1, <2>2 DEF Claims, Disjoint, SameStarter
    <2> QED BY Zenon, <2>1, <2>2
  <1>8. Fresh'
    <2> SUFFICES ASSUME NEW e \in Entry, sup'[e] # "off"
                 PROVE  /\ e <= started'
                        /\ \A u \in Starter : at'[u] # "idle" => ~(next'[u] <= e /\ e <= last'[u])
      BY Zenon DEF Fresh
    <2>1. CASE sup[e] # "off"
      <3>1. e <= started /\ \A u \in Starter : at[u] # "idle" => ~(next[u] <= e /\ e <= last[u])
        BY Zenon, <2>1 DEF Claims, Fresh
      <3>2. at'[s] # "idle" => ~(next'[s] <= e /\ e <= last'[s])
        <4>1. \A a, b \in Int : a <= b => ~(b + 1 <= a)
          OBVIOUS
        <4>2. \A a, b, d \in Int : ~(a <= b /\ b <= d) => ~(a + 1 <= b /\ b <= d)
          OBVIOUS
        <4>3. e \in Int /\ started \in Int /\ next[s] \in Int /\ last[s] \in Int
          BY Zenon, Numbers
        <4>4. CASE Begins(s)
          BY Zenon, <3>1, <4>1, <4>3, <4>4 DEF Begins
        <4>5. CASE Stays(s)
          BY Zenon, <3>1, <4>5 DEF Stays
        <4>6. CASE Advances(s)
          <5>1. at[s] # "idle" /\ next'[s] = next[s] + 1 /\ last'[s] = last[s]
            BY Zenon, <4>6 DEF Advances
          <5>2. ~(next[s] + 1 <= e /\ e <= last[s])
            BY Zenon, <3>1, <4>2, <4>3, <5>1
          <5> QED BY Zenon, <5>1, <5>2
        <4> QED BY Zenon, <1>1, <4>4, <4>5, <4>6
      <3>3. e <= started'
        BY <1>2, <3>1, Numbers
      <3> QED BY Zenon, <1>1, <3>1, <3>2, <3>3 DEF SameStarter
    <2>2. CASE sup[e] = "off"
      <3>1. Advances(s) /\ e = next[s]
        BY Zenon, <1>1, <2>2 DEF Begins, Stays, Advances
      <3>2. e <= started'
        BY <1>4, <3>1, Numbers DEF Advances
      <3>3. ~(next'[s] <= e)
        BY <3>1, Numbers DEF Advances
      <3>4. ASSUME NEW u \in Starter, u # s, at[u] # "idle" PROVE ~(next[u] <= e /\ e <= last[u])
        <4>1. last[s] < next[u] \/ last[u] < next[s]
          BY Zenon, <3>1, <3>4 DEF Claims, Disjoint, Advances
        <4>2. next[s] <= last[s]
          BY Zenon, <1>4, <3>1 DEF Advances
        <4> QED BY <3>1, <4>1, <4>2, Numbers
      <3> QED BY Zenon, <1>1, <3>2, <3>3, <3>4 DEF SameStarter
    <2> QED BY Zenon, <2>1, <2>2
  <1> QED BY Zenon, <1>3, <1>5, <1>7, <1>8 DEF Claims
-----------------------------------------------------------------------------
(* The open consumers.                                                     *)

Holds(s, e) == at[s] \in {"list", "discard"} /\ got[s] /\ next[s] = e

Running(e) == sup[e] \in {"up", "consume", "close"}

Owned(e) == Running(e) \/ \E s \in Starter : Holds(s, e)

\* An open consumer has exactly one owner, its supervisor or a start.
Accounted == \A e \in Entry : (Owned(e) => open[e] = 1) /\ (~Owned(e) => open[e] = 0)

\* The entry a start works on has no supervisor, and no other start holds it.
LEMMA Alone ==
    ASSUME TypeOK, Claims, NEW s \in Starter, at[s] # "idle"
    PROVE  /\ next[s] \in Entry
           /\ sup[next[s]] = "off"
           /\ \A u \in Starter : u # s => ~Holds(u, next[s])
  <1>1. /\ next[s] \in Entry /\ next[s] <= last[s] /\ next[s] \in Int /\ last[s] \in Int
        /\ next[s] <= next[s]
    <2>1. Busy(s)
      BY Zenon DEF Claims, StarterOK
    <2> QED BY <2>1, CurrentEntry
  <1>2. sup[next[s]] = "off"
    BY Zenon, <1>1 DEF Claims, Fresh
  <1>3. ASSUME NEW u \in Starter, u # s, Holds(u, next[s]) PROVE FALSE
    <2>1. at[u] # "idle" /\ next[u] = next[s]
      BY Zenon, <1>3 DEF Holds
    <2>2. next[u] <= last[u] /\ last[u] \in Int
      BY Zenon, <2>1, Numbers DEF Claims, StarterOK, Busy
    <2>3. last[s] < next[u] \/ last[u] < next[s]
      BY Zenon, <1>3, <2>1 DEF Claims, Disjoint
    <2> QED BY <1>1, <2>1, <2>2, <2>3
  <1> QED BY Zenon, <1>1, <1>2, <1>3

\* A supervised entry is held by no start.
LEMMA NotHeld ==
    ASSUME TypeOK, Claims, NEW e \in Entry, sup[e] # "off"
    PROVE  \A s \in Starter : ~Holds(s, e)
  BY Zenon, Alone DEF Holds

LEMMA StartAccounts ==
    ASSUME TypeOK, Claims, Accounted, NEW s \in Starter, Start(s)
    PROVE  Accounted'
  <1>1. \A u \in Starter, e \in Entry : u # s => (Holds(u, e)' <=> Holds(u, e))
    BY Zenon, StartMoves DEF SameStarter, Holds
  <1>2. ASSUME open' = open, \A e \in Entry : Running(e)' <=> Running(e),
               \A e \in Entry : Holds(s, e)' <=> Holds(s, e)
        PROVE  Accounted'
    BY Zenon, <1>1, <1>2 DEF Accounted, Owned
  <1>3. CASE StartBegins(s) \/ SkipsTopicless(s)
    BY Zenon, <1>2, <1>3 DEF StartBegins, SkipsTopicless, NextEntry, Running, Holds, TypeOK
  <1>4. CASE CreateFails(s)
    <2>1. ~got[s]
      BY Zenon, <1>4 DEF CreateFails, Claims, StarterOK
    <2> QED BY Zenon, <1>2, <1>4, <2>1 DEF CreateFails, Running, Holds, TypeOK
  <1>5. CASE TooLate(s)
    BY Zenon, <1>2, <1>5 DEF TooLate, NextEntry, Running, Holds, TypeOK
  <1>6. CASE Creates(s)
    <2>1. PICK n \in Entry : n = next[s]
      BY Zenon, <1>6, Alone DEF Creates
    <2>2. ~Owned(n)
      BY Zenon, <1>6, <2>1, Alone DEF Creates, Owned, Running, Holds
    <2>3. open[n] = 0
      BY Zenon, <2>2 DEF Accounted
    <2>4. open' = [open EXCEPT ![n] = open[n] + 1]
      BY Zenon, <1>6, <2>1 DEF Creates
    <2>5. open'[n] = 1 /\ \A e \in Entry : e # n => open'[e] = open[e]
      BY <2>3, <2>4 DEF TypeOK
    <2>6. Holds(s, n)' /\ \A e \in Entry : e # n => ~Holds(s, e)' /\ ~Holds(s, e)
      BY Zenon, <1>6, <2>1 DEF Creates, Holds, TypeOK
    <2>7. \A e \in Entry : Running(e)' <=> Running(e)
      BY Zenon, <1>6 DEF Creates, Running
    <2>8. \A e \in Entry : e # n => (Owned(e)' <=> Owned(e))
      BY Zenon, <1>1, <2>6, <2>7 DEF Owned
    <2>9. Owned(n)'
      BY Zenon, <2>6 DEF Owned
    <2> QED BY Zenon, <2>5, <2>8, <2>9 DEF Accounted
  <1>7. CASE Supervises(s)
    <2>1. PICK n \in Entry : n = next[s]
      BY Zenon, <1>7, Alone DEF Supervises
    <2>2. ~Running(n) /\ \A u \in Starter : u # s => ~Holds(u, n)
      BY Zenon, <1>7, <2>1, Alone DEF Supervises, Running
    <2>3. \A e \in Entry : ~Holds(s, e)'
      BY Zenon, <1>7 DEF Supervises, NextEntry, Holds, TypeOK
    <2>4. \A e \in Entry : e # n => ~Holds(s, e)
      BY Zenon, <2>1 DEF Holds
    <2>5. \A e \in Entry : e # n => sup'[e] = sup[e]
      BY Zenon, <1>7, <2>1 DEF Supervises, TypeOK
    <2>6. \A e \in Entry : e # n => (Owned(e)' <=> Owned(e))
      BY Zenon, <1>1, <2>3, <2>4, <2>5 DEF Owned, Running
    <2>7. Owned(n)' <=> Owned(n)
      <3>1. CASE got[s]
        <4>1. sup'[n] = "up" /\ Holds(s, n)
          BY Zenon, <1>7, <2>1, <3>1 DEF Supervises, Holds, TypeOK
        <4> QED BY Zenon, <4>1 DEF Owned, Running
      <3>2. CASE ~got[s]
        <4>1. sup'[n] = "sleep" /\ ~Holds(s, n)
          BY Zenon, <1>7, <2>1, <3>2 DEF Supervises, Holds, TypeOK
        <4> QED BY Zenon, <1>1, <2>2, <2>3, <4>1 DEF Owned, Running
      <3> QED BY Zenon, <3>1, <3>2
    <2> QED BY Zenon, <1>7, <2>6, <2>7 DEF Supervises, Accounted
  <1>8. CASE Discards(s)
    <2>1. PICK n \in Entry : n = next[s]
      BY Zenon, <1>8, Alone DEF Discards
    <2>2. ~Running(n) /\ Holds(s, n) /\ \A u \in Starter : u # s => ~Holds(u, n)
      BY Zenon, <1>8, <2>1, Alone DEF Discards, Claims, StarterOK, Running, Holds
    <2>3. open[n] = 1
      BY Zenon, <2>2 DEF Accounted, Owned
    <2>4. open' = [open EXCEPT ![n] = open[n] - 1]
      BY Zenon, <1>8, <2>1 DEF Discards
    <2>5. open'[n] = 0 /\ \A e \in Entry : e # n => open'[e] = open[e]
      BY <2>3, <2>4 DEF TypeOK
    <2>6. \A e \in Entry : Running(e)' <=> Running(e)
      BY Zenon, <1>8 DEF Discards, Running
    <2>7. \A e \in Entry : ~Holds(s, e)'
      BY Zenon, <1>8 DEF Discards, NextEntry, Holds, TypeOK
    <2>8. \A e \in Entry : e # n => ~Holds(s, e)
      BY Zenon, <2>1 DEF Holds
    <2>9. \A e \in Entry : e # n => (Owned(e)' <=> Owned(e))
      BY Zenon, <1>1, <2>6, <2>7, <2>8 DEF Owned
    <2>10. ~Owned(n)'
      BY Zenon, <1>1, <2>2, <2>6, <2>7 DEF Owned
    <2> QED BY Zenon, <2>5, <2>9, <2>10 DEF Accounted
  <1> QED BY Zenon, <1>3, <1>4, <1>5, <1>6, <1>7, <1>8 DEF Start

LEMMA SuperviseMoves ==
    ASSUME TypeOK, NEW e \in Entry, Supervise(e)
    PROVE  /\ sup[e] \notin {"off", "ended"} /\ sup'[e] # "off"
           /\ \A f \in Entry : f # e => sup'[f] = sup[f]
           /\ UNCHANGED <<entries, shutdown, startVars>>
           /\ \/ (Running(e)' <=> Running(e)) /\ open' = open
              \/ ~Running(e) /\ Running(e)' /\ open' = [open EXCEPT ![e] = @ + 1]
              \/ Running(e) /\ ~Running(e)' /\ open' = [open EXCEPT ![e] = @ - 1]
  <1> USE DEF Running, TypeOK
  <1>1. CASE SleepOver(e) \/ SleepCut(e)
    BY Zenon, <1>1 DEF SleepOver, SleepCut
  <1>2. CASE Recreates(e)
    BY Zenon, <1>2 DEF Recreates
  <1>3. CASE RecreateFails(e)
    BY Zenon, <1>3 DEF RecreateFails
  <1>4. CASE Consumes(e)
    BY Zenon, <1>4 DEF Consumes
  <1>5. CASE RunEnds(e) \/ ConsumeFails(e)
    BY Zenon, <1>5 DEF RunEnds, ConsumeFails
  <1>6. CASE Closes(e)
    <2>1. PICK p \in {"sleep", "ended"} : sup' = [sup EXCEPT ![e] = p]
      BY Zenon, <1>6 DEF Closes
    <2> QED BY Zenon, <1>6, <2>1 DEF Closes
  <1> QED BY Zenon, <1>1, <1>2, <1>3, <1>4, <1>5, <1>6 DEF Supervise

\* The wait group: once CloseContext may return nil, no supervisor is left.
NoneLeft == done => \A e \in Entry : sup[e] \in {"off", "ended"}

ShutdownOK == (draining \/ done => closed) /\ NoneLeft /\ \A c \in Closer : closer[c] = "cancel" => closed

IInv == TypeOK /\ Claims /\ Accounted /\ ShutdownOK

LEMMA SuperviseKeeps ==
    ASSUME IInv, NEW e \in Entry, Supervise(e)
    PROVE  Claims' /\ Accounted' /\ ShutdownOK'
  <1> USE DEF IInv
  <1>1. /\ sup[e] \notin {"off", "ended"} /\ sup'[e] # "off"
        /\ \A f \in Entry : f # e => sup'[f] = sup[f]
        /\ UNCHANGED <<entries, shutdown, startVars>>
    BY Zenon, SuperviseMoves
  <1>2. Claims'
    <2>1. Disjoint' /\ \A s \in Starter : StarterOK(s)'
      BY Zenon, <1>1 DEF Claims, Disjoint, StarterOK, Busy, entries, startVars
    <2>2. \A f \in Entry : sup'[f] # "off" => sup[f] # "off"
      BY Zenon, <1>1
    <2>3. Fresh'
      BY Zenon, <1>1, <2>2 DEF Claims, Fresh, entries, startVars
    <2> QED BY Zenon, <2>1, <2>3 DEF Claims
  <1>3. Accounted'
    <2>1. \A s \in Starter, f \in Entry : Holds(s, f)' <=> Holds(s, f)
      BY Zenon, <1>1 DEF Holds, startVars
    <2>2. \A f \in Entry : f # e => (Owned(f)' <=> Owned(f))
      BY Zenon, <1>1, <2>1 DEF Owned, Running
    <2>3. (Owned(e) <=> Running(e)) /\ (Owned(e)' <=> Running(e)')
      BY Zenon, <1>1, <2>1, NotHeld DEF Owned
    <2>4. CASE (Running(e)' <=> Running(e)) /\ open' = open
      BY Zenon, <2>2, <2>3, <2>4 DEF Accounted
    <2>5. CASE ~Running(e) /\ Running(e)' /\ open' = [open EXCEPT ![e] = @ + 1]
      <3>1. open[e] = 0
        BY Zenon, <2>3, <2>5 DEF Accounted
      <3>2. open'[e] = 1 /\ \A f \in Entry : f # e => open'[f] = open[f]
        BY <2>5, <3>1 DEF TypeOK
      <3> QED BY Zenon, <2>2, <2>3, <2>5, <3>2 DEF Accounted
    <2>6. CASE Running(e) /\ ~Running(e)' /\ open' = [open EXCEPT ![e] = @ - 1]
      <3>1. open[e] = 1
        BY Zenon, <2>3, <2>6 DEF Accounted
      <3>2. open'[e] = 0 /\ \A f \in Entry : f # e => open'[f] = open[f]
        BY <2>6, <3>1 DEF TypeOK
      <3> QED BY Zenon, <2>2, <2>3, <2>6, <3>2 DEF Accounted
    <2> QED BY Zenon, <2>4, <2>5, <2>6, SuperviseMoves
  <1>4. ShutdownOK'
    BY Zenon, <1>1 DEF ShutdownOK, NoneLeft, shutdown
  <1> QED BY Zenon, <1>2, <1>3, <1>4

\* A start adds no supervisor to a manager that is closed.
LEMMA StartShutdown ==
    ASSUME IInv, NEW s \in Starter, Start(s)
    PROVE  ShutdownOK'
  <1>1. UNCHANGED shutdown
    BY Zenon DEF Start, StartBegins, SkipsTopicless, Creates, CreateFails, Supervises, TooLate, Discards
  <1>2. closed => sup' = sup
    BY Zenon DEF Start, StartBegins, SkipsTopicless, Creates, CreateFails, Supervises, TooLate, Discards
  <1> QED BY Zenon, <1>1, <1>2 DEF IInv, ShutdownOK, NoneLeft, shutdown

LEMMA OtherKeeps ==
    ASSUME IInv, Register \/ Drained \/ Tick \/ (\E c \in Closer : Close(c)) \/ UNCHANGED vars
    PROVE  Claims' /\ Accounted' /\ ShutdownOK'
  <1> USE DEF IInv
  <1>1. UNCHANGED <<started, startVars, sup, open>>
    BY Zenon DEF Register, Drained, Tick, Close, CloseBegins, Cancels, CloseReturns, CloseTimesOut,
                 vars, entries
  <1>2. Claims'
    BY Zenon, <1>1 DEF Claims, Disjoint, Fresh, StarterOK, Busy, startVars
  <1>3. Accounted'
    BY Zenon, <1>1 DEF Accounted, Owned, Running, Holds, startVars
  <1>4. ShutdownOK'
    <2>1. CASE Register \/ Tick \/ UNCHANGED vars
      <3>1. UNCHANGED shutdown
        BY Zenon, <2>1 DEF Register, Tick, vars
      <3> QED BY Zenon, <1>1, <3>1 DEF ShutdownOK, NoneLeft, shutdown
    <2>2. CASE Drained
      BY Zenon, <2>2 DEF Drained, Supervised, ShutdownOK, NoneLeft
    <2>3. ASSUME NEW c \in Closer, Close(c) PROVE ShutdownOK'
      <3>1. done' = done
        BY Zenon, <2>3 DEF Close, CloseBegins, Cancels, CloseReturns, CloseTimesOut
      <3>3. draining' \/ done' => closed'
        BY Zenon, <2>3 DEF Close, CloseBegins, Cancels, CloseReturns, CloseTimesOut, ShutdownOK
      <3>4. CASE CloseBegins(c)
        BY Zenon, <3>3, <3>4, <1>1 DEF CloseBegins, ShutdownOK, NoneLeft
      <3>5. CASE Cancels(c) \/ CloseReturns(c) \/ CloseTimesOut(c)
        <4>1. PICK p \in {"wait", "nil", "err"} : closer' = [closer EXCEPT ![c] = p]
          BY Zenon, <3>5 DEF Cancels, CloseReturns, CloseTimesOut
        <4>2. closed' = closed
          BY Zenon, <3>5 DEF Cancels, CloseReturns, CloseTimesOut
        <4>3. ASSUME NEW d \in Closer, closer'[d] = "cancel" PROVE closed
          BY Zenon, <4>1, <4>3 DEF ShutdownOK, TypeOK
        <4> QED BY Zenon, <1>1, <3>1, <3>3, <4>2, <4>3 DEF ShutdownOK, NoneLeft
      <3> QED BY Zenon, <2>3, <3>4, <3>5 DEF Close
    <2> QED BY Zenon, <2>1, <2>2, <2>3
  <1> QED BY Zenon, <1>2, <1>3, <1>4
-----------------------------------------------------------------------------
(* The invariant, and the theorems.                                        *)

LEMMA InitInv == Init => IInv
  <1> SUFFICES ASSUME Init PROVE IInv
    OBVIOUS
  <1>1. TypeOK
    BY Zenon, InitType
  <1>2. Claims
    BY Zenon DEF Init, Claims, Disjoint, Fresh, StarterOK, Busy
  <1>3. Accounted
    BY Zenon DEF Init, Accounted, Owned, Running, Holds
  <1>4. ShutdownOK
    BY Zenon DEF Init, ShutdownOK, NoneLeft
  <1> QED BY Zenon, <1>1, <1>2, <1>3, <1>4 DEF IInv

LEMMA NextInv == IInv /\ [Next]_vars => IInv'
  <1> SUFFICES ASSUME IInv, [Next]_vars PROVE IInv'
    OBVIOUS
  <1>1. ASSUME NEW s \in Starter, Start(s) PROVE IInv'
    <2>1. TypeOK /\ Claims /\ Accounted /\ Busy(s)
      BY Zenon DEF IInv, Claims, StarterOK
    <2> QED BY Zenon, <1>1, <2>1, StartType, StartClaims, StartAccounts, StartShutdown DEF IInv
  <1>2. ASSUME NEW e \in Entry, Supervise(e) PROVE IInv'
    <2>1. TypeOK
      BY Zenon DEF IInv
    <2> QED BY Zenon, <1>2, <2>1, SuperviseType, SuperviseKeeps DEF IInv
  <1>3. CASE Register \/ Drained \/ Tick \/ (\E c \in Closer : Close(c)) \/ UNCHANGED vars
    <2>1. TypeOK
      BY Zenon DEF IInv
    <2> QED BY Zenon, <1>3, <2>1, OtherType, OtherKeeps DEF IInv
  <1> QED BY Zenon, <1>1, <1>2, <1>3 DEF Next

LEMMA Invariance == Spec => []IInv
  BY InitInv, NextInv, PTL DEF Spec

LEMMA OwnedHolding ==
    ASSUME IInv
    PROVE  OneConsumer /\ DoneMeansDrained
  <1>1. \A e \in Entry : Holding(e) # {} <=> \E s \in Starter : Holds(s, e)
    BY Zenon DEF Holding, Holds
  <1>2. ASSUME NEW e \in Entry
        PROVE  /\ open[e] \in {0, 1}
               /\ open[e] = 1 => Running(e) \/ Holding(e) # {}
    <2>1. CASE Owned(e)
      BY Zenon, <1>1, <2>1 DEF IInv, Accounted, Owned
    <2>2. CASE ~Owned(e)
      <3>1. open[e] = 0
        BY Zenon, <2>2 DEF IInv, Accounted
      <3> QED BY <3>1
    <2> QED BY Zenon, <2>1, <2>2
  <1>3. OneConsumer
    BY Zenon, <1>2 DEF OneConsumer, Running
  <1>4. DoneMeansDrained
    BY Zenon, <1>2 DEF IInv, ShutdownOK, NoneLeft, DoneMeansDrained, Supervised, Running
  <1> QED BY Zenon, <1>3, <1>4

\* Every variable keeps its type, whatever starts, supervisors and closers do:
\* in particular m.started never passes len(m.entries) and a start never walks
\* past the entries it took (start).
THEOREM TypeCorrect == Spec => []TypeOK
  <1>1. IInv => TypeOK
    BY Zenon DEF IInv
  <1> QED BY <1>1, Invariance, PTL

\* However many goroutines call Start, whatever fails, an entry never has two
\* open consumers, and an open one belongs to its supervisor or to the start
\* that is about to hand it over or to close it (start, supervise).
THEOREM OneConsumerPerEntry == Spec => []OneConsumer
  <1>1. IInv => OneConsumer
    BY Zenon, OwnedHolding
  <1> QED BY <1>1, Invariance, PTL

\* CloseContext returns nil only when no supervisor runs, and none starts
\* afterwards, even from a Start that was in progress (CloseContext, start).
THEOREM NilMeansDrained == Spec => []DoneMeansDrained
  <1>1. IInv => DoneMeansDrained
    BY Zenon, OwnedHolding
  <1> QED BY <1>1, Invariance, PTL
-----------------------------------------------------------------------------
(* The outages.  downSince is the first failure since the last long run, so *)
(* the age of the outage is the age of the oldest failure that counts.      *)

OutageOK(since, fails, long, clock) ==
    /\ since <= clock /\ long <= clock /\ \A t \in fails : t <= clock
    /\ since = 0 => fails = {}
    /\ since # 0 => since \in fails /\ since >= long /\ \A t \in fails : t >= long => t >= since

Outages == \A e \in Entry : OutageOK(downSince[e], failed[e], longRun[e], now)

LEMMA HealthNumbers ==
    ASSUME TypeOK
    PROVE  /\ now \in Nat /\ now > 0 /\ Grace \in Nat
           /\ \A e \in Entry : /\ downSince[e] \in Nat /\ longRun[e] \in Nat /\ began[e] \in Nat
                               /\ \A t \in failed[e] : t \in Nat /\ t > 0
  <1>1. now \in 1..MaxTime /\ \A e \in Entry : /\ downSince[e] \in 0..MaxTime /\ longRun[e] \in 0..MaxTime
                                               /\ began[e] \in 0..MaxTime
    BY Zenon DEF TypeOK
  <1>2. \A e \in Entry : failed[e] \subseteq 1..MaxTime
    BY Zenon DEF TypeOK
  <1>3. \A n \in 1..MaxTime : n \in Nat /\ n > 0
    BY ConstantTypes
  <1>4. \A n \in 0..MaxTime : n \in Nat
    BY ConstantTypes
  <1> QED BY Zenon, <1>1, <1>2, <1>3, <1>4, ManagerAssumption

\* A failure joins the outage in progress, opens the first one, or, after a
\* long run, a new one.
LEMMA DownKeeps ==
    ASSUME TypeOK, Outages, NEW e \in Entry, NEW b \in BOOLEAN, Down(e, b), now' = now,
           longRun' = IF b THEN [longRun EXCEPT ![e] = now] ELSE longRun
    PROVE  Outages'
  <1> SUFFICES ASSUME NEW d \in Entry PROVE OutageOK(downSince'[d], failed'[d], longRun'[d], now)
    BY Zenon DEF Outages
  <1>1. OutageOK(downSince[d], failed[d], longRun[d], now)
    BY Zenon DEF Outages
  <1>2. CASE d # e
    <2>1. downSince'[d] = downSince[d] /\ failed'[d] = failed[d] /\ longRun'[d] = longRun[d]
      BY Zenon, <1>2 DEF Down, TypeOK
    <2> QED BY Zenon, <1>1, <2>1
  <1>3. CASE d = e
    <2>1. /\ downSince'[d] = IF b \/ downSince[d] = 0 THEN now ELSE downSince[d]
          /\ failed'[d] = failed[d] \cup {now} /\ longRun'[d] = IF b THEN now ELSE longRun[d]
      BY Zenon, <1>3 DEF Down, TypeOK
    <2>2. PICK u, x, y : u = downSince[d] /\ x = longRun[d] /\ y = failed[d]
      BY Zenon
    <2>3. u \in Nat /\ x \in Nat /\ now \in Nat /\ now > 0 /\ \A t \in y : t \in Nat /\ t > 0
      BY Zenon, <2>2, HealthNumbers
    <2>4. OutageOK(u, y, x, now)
      BY Zenon, <1>1, <2>2
    <2>5. OutageOK(IF b \/ u = 0 THEN now ELSE u, y \cup {now}, IF b THEN now ELSE x, now)
      BY <2>3, <2>4 DEF OutageOK
    <2> QED BY Zenon, <2>1, <2>2, <2>5
  <1> QED BY Zenon, <1>2, <1>3

LEMMA StopKeeps ==
    ASSUME TypeOK, Outages, NEW e \in Entry, StopState(e), UNCHANGED <<now, longRun>>
    PROVE  Outages'
  <1> SUFFICES ASSUME NEW d \in Entry PROVE OutageOK(downSince'[d], failed'[d], longRun'[d], now)
    BY Zenon DEF Outages
  <1>1. OutageOK(downSince[d], failed[d], longRun[d], now)
    BY Zenon DEF Outages
  <1>2. CASE d # e
    BY Zenon, <1>1, <1>2 DEF StopState, TypeOK
  <1>3. CASE d = e
    <2>1. downSince'[d] = 0 /\ failed'[d] = {} /\ longRun'[d] <= now
      BY Zenon, <1>1, <1>3 DEF StopState, TypeOK, OutageOK
    <2>2. 0 <= now
      <3>1. \A n \in Nat : 0 <= n
        OBVIOUS
      <3> QED BY Zenon, <3>1, HealthNumbers
    <2> QED BY Zenon, <2>1, <2>2 DEF OutageOK
  <1> QED BY Zenon, <1>2, <1>3

LEMMA OutagesStep ==
    ASSUME IInv, Outages, [Next]_vars
    PROVE  Outages'
  <1>1. TypeOK /\ \A s \in Starter : Busy(s)
    BY Zenon DEF IInv, Claims, StarterOK
  <1>2. CASE UNCHANGED <<downSince, failed, longRun, now>>
    BY Zenon, <1>2 DEF Outages
  <1>3. CASE Tick
    <2>1. \A n \in Nat : n <= now => n <= now'
      BY <1>1, <1>3, HealthNumbers DEF Tick
    <2>2. UNCHANGED <<downSince, failed, longRun>>
      BY Zenon, <1>3 DEF Tick, healthVars
    <2> SUFFICES ASSUME NEW d \in Entry PROVE OutageOK(downSince[d], failed[d], longRun[d], now')
      BY Zenon, <2>2 DEF Outages
    <2>3. OutageOK(downSince[d], failed[d], longRun[d], now)
      BY Zenon DEF Outages
    <2>4. downSince[d] \in Nat /\ longRun[d] \in Nat /\ \A t \in failed[d] : t \in Nat
      BY Zenon, <1>1, HealthNumbers
    <2> QED BY Zenon, <2>1, <2>3, <2>4 DEF OutageOK
  <1>4. ASSUME NEW e \in Entry, Supervise(e) PROVE Outages'
    <2>1. CASE SleepCut(e) \/ (Closes(e) /\ cancelled)
      BY Zenon, <1>1, <2>1, StopKeeps DEF SleepCut, Closes
    <2>2. CASE RecreateFails(e)
      BY Zenon, <1>1, <2>2, DownKeeps DEF RecreateFails
    <2>3. CASE Closes(e) /\ ~cancelled
      <3>1. PICK b \in BOOLEAN : b <=> RanLong(e)
        BY Zenon
      <3>2. Down(e, b) /\ now' = now
        BY Zenon, <2>3, <3>1 DEF Closes, Down
      <3>3. longRun' = [longRun EXCEPT ![e] = IF RanLong(e) THEN now ELSE @] /\ longRun \in [Entry -> 0..MaxTime]
        BY Zenon, <1>1, <2>3 DEF Closes, TypeOK
      <3>4. longRun' = IF b THEN [longRun EXCEPT ![e] = now] ELSE longRun
        <4>1. CASE b
          BY Zenon, <3>1, <3>3, <4>1
        <4>2. CASE ~b
          BY Zenon, <3>1, <3>3, <4>2
        <4> QED BY Zenon, <4>1, <4>2
      <3> QED BY Zenon, <1>1, <3>2, <3>4, DownKeeps
    <2>4. CASE SleepOver(e) \/ Recreates(e) \/ Consumes(e) \/ RunEnds(e) \/ ConsumeFails(e)
      BY Zenon, <1>2, <2>4 DEF SleepOver, Recreates, Consumes, Up, RunEnds, ConsumeFails, healthVars
    <2> QED BY Zenon, <1>4, <2>1, <2>2, <2>3, <2>4 DEF Supervise
  <1>5. ASSUME NEW s \in Starter, Start(s) PROVE Outages'
    <2>1. CASE CreateFails(s)
      <3>1. next[s] \in Entry
        BY Zenon, <1>1, <2>1, CurrentEntry DEF CreateFails
      <3> QED BY Zenon, <1>1, <2>1, <3>1, DownKeeps DEF CreateFails
    <2>2. CASE ~CreateFails(s)
      BY Zenon, <1>2, <1>5, <2>2 DEF Start, StartBegins, SkipsTopicless, Creates, Supervises, TooLate, Discards, healthVars
    <2> QED BY Zenon, <2>1, <2>2
  <1>6. CASE Register \/ Drained \/ (\E c \in Closer : Close(c)) \/ UNCHANGED vars
    BY Zenon, <1>2, <1>6 DEF Register, Drained, Close, CloseBegins, Cancels, CloseReturns, CloseTimesOut, vars, healthVars
  <1> QED BY Zenon, <1>3, <1>4, <1>5, <1>6 DEF Next

\* Whatever starts, runs and failures interleave, Healthy names a consumer
\* exactly when it is down and a failure since its last long run is as old as
\* the grace: a crash loop keeps its outage, a long run ends it (Healthy, down).
THEOREM HealthySpeaksTrue == Spec => []HealthTruthful
  <1>1. Init => IInv /\ Outages
    <2> SUFFICES ASSUME Init PROVE Outages
      BY Zenon, InitInv
    <2>1. \A e \in Entry : downSince[e] = 0 /\ failed[e] = {} /\ longRun[e] = 0
      BY Zenon DEF Init
    <2>2. 0 <= now
      BY DEF Init
    <2> QED BY Zenon, <2>1, <2>2 DEF Outages, OutageOK
  <1>2. (IInv /\ Outages) /\ [Next]_vars => (IInv /\ Outages)'
    BY Zenon, NextInv, OutagesStep
  <1>3. IInv /\ Outages => HealthTruthful
    <2> SUFFICES ASSUME IInv, Outages, NEW e \in Entry
                 PROVE  Reported(e) <=> /\ sup[e] # "off" /\ ~running[e]
                                        /\ \E t \in failed[e] : t >= longRun[e] /\ now - t >= Grace
      BY Zenon DEF HealthTruthful
    <2>1. TypeOK
      BY Zenon DEF IInv
    <2>2. PICK u, x, y : u = downSince[e] /\ x = longRun[e] /\ y = failed[e]
      BY Zenon
    <2>3. u \in Nat /\ x \in Nat /\ now \in Nat /\ Grace \in Nat /\ \A t \in y : t \in Nat /\ t > 0
      BY Zenon, <2>1, <2>2, HealthNumbers
    <2>4. OutageOK(u, y, x, now)
      BY Zenon, <2>2 DEF Outages
    <2>5. (u # 0 /\ now - u >= Grace) => \E t \in y : t >= x /\ now - t >= Grace
      BY Zenon, <2>4 DEF OutageOK
    <2>6. ASSUME NEW t \in y, t >= x, now - t >= Grace PROVE u # 0 /\ now - u >= Grace
      <3>1. u # 0
        BY Zenon, <2>4 DEF OutageOK
      <3>2. t >= u
        BY Zenon, <2>4, <2>6, <3>1 DEF OutageOK
      <3> QED BY <2>3, <2>6, <3>1, <3>2
    <2> QED BY Zenon, <2>2, <2>5, <2>6 DEF Reported
  <1> QED BY <1>1, <1>2, <1>3, PTL DEF Spec
=============================================================================
